---- MODULE Spec2Model ----
(***************************************************************************)
(* Model of the marvis orchestration core.                                 *)
(*                                                                         *)
(*   PyATSHandler.execute_command_on_devices  (src/marvis/pyats_handler.py)*)
(*   TroubleshootingManager.process_alarm / process_user_query             *)
(*                                            (src/marvis/manager.py)      *)
(*                                                                         *)
(* Text values (error texts, raw output, parsed output) are sequences of   *)
(* text fragments, so that a message built by "+=" is the concatenation of *)
(* its fragments; Python's None is the empty sequence.  Command strings    *)
(* are sequences of characters, so that whitespace normalisation is        *)
(* computed as the code computes it.  Device names are atoms whose         *)
(* characters are given by Chars.                                          *)
(***************************************************************************)
EXTENDS Integers, Sequences, FiniteSets, TLC

None == <<>>

(***************************************************************************)
(* Bounds of the model.                                                    *)
(***************************************************************************)
\* longest device_names list a direct caller passes to the handler
MaxDevs == 2

\* longest device_names list of a call that is made twice
MaxRepeatDevs == 1

(***************************************************************************)
(* Strings.                                                                *)
(***************************************************************************)
Whitespace == {" ", "\t"}

Digits == {"0", "1", "2", "3", "4", "5", "6", "7", "8", "9"}

\* str.strip(): drop leading and trailing whitespace
RECURSIVE LStrip(_)
LStrip(s) ==
    IF s # <<>> /\ Head(s) \in Whitespace THEN LStrip(Tail(s)) ELSE s

RECURSIVE RStrip(_)
RStrip(s) ==
    IF s # <<>> /\ s[Len(s)] \in Whitespace
    THEN RStrip(SubSeq(s, 1, Len(s) - 1))
    ELSE s

Strip(s) == RStrip(LStrip(s))

\* str.split() without arguments: the maximal runs of non-whitespace
RECURSIVE SplitWs(_, _, _)
SplitWs(s, cur, acc) ==
    IF s = <<>>
    THEN IF cur = <<>> THEN acc ELSE Append(acc, cur)
    ELSE IF Head(s) \in Whitespace
         THEN SplitWs(Tail(s), <<>>, IF cur = <<>> THEN acc ELSE Append(acc, cur))
         ELSE SplitWs(Tail(s), Append(cur, Head(s)), acc)

\* " ".join(words)
RECURSIVE JoinSpace(_)
JoinSpace(words) ==
    IF words = <<>> THEN <<>>
    ELSE IF Len(words) = 1 THEN words[1]
    ELSE words[1] \o <<" ">> \o JoinSpace(Tail(words))

\* " ".join(cmd.strip().split())
NormalizeCommand(s) == JoinSpace(SplitWs(Strip(s), <<>>, <<>>))

\* f"{flag}" of a bool
PyStr(b) == IF b THEN "True" ELSE "False"

(***************************************************************************)
(* The inventory (testbed) and the devices behind it.                      *)
(***************************************************************************)
\* names a caller may put in device_names
DeviceNames == {"R1", "R2", "R9"}

\* testbed.devices: the names the loaded testbed resolves
TestbedDevices == {"R1", "R2"}

\* connections["default"].ip of a testbed device, None when it has none
ConnectionIp(d) == IF d = "R2" THEN <<"10.0.0.2">> ELSE None

Chars(t) ==
    CASE t = "R1" -> <<"R", "1">>
      [] t = "R2" -> <<"R", "2">>
      [] t = "R9" -> <<"R", "9">>
      [] t = "10.0.0.2" -> <<"1", "0", ".", "0", ".", "0", ".", "2">>

\* s.split(':')[0]
RECURSIVE BeforeColon(_)
BeforeColon(s) ==
    IF s = <<>> \/ Head(s) = ":" THEN <<>>
    ELSE <<Head(s)>> \o BeforeColon(Tail(s))

\* all(c.isdigit() or c == '.' for c in target.split(':')[0])
IsIpLike(t) ==
    LET h == BeforeColon(Chars(t))
    IN  \A i \in 1..Len(h) : h[i] \in Digits \cup {"."}

\* settings.allowed_pyats_commands as configured (not yet normalised)
AllowedCommandsConfig ==
    { <<"s", " ", "v">>, <<" ", "s", " ", " ", "i", " ">> }

\* command strings a caller (or the Oracle) may ask for
CommandInputs ==
    { <<"s", " ", "v">>,
      <<" ", "s", "\t", " ", "v", " ">>,
      <<"s", "v">>,
      <<" ">> }

\* x occurs in the sequence q
InSeq(x, q) == \E k \in 1..Len(q) : q[k] = x

\* the lists over S of at most n elements that name no element twice
RECURSIVE ListsUpTo(_, _)
ListsUpTo(S, n) ==
    IF n = 0 THEN {<<>>}
    ELSE LET shorter == ListsUpTo(S, n - 1)
         IN  shorter \cup UNION { {Append(q, x) : x \in {y \in S : ~InSeq(y, q)}} :
                                   q \in shorter }

(***************************************************************************)
(* State.                                                                  *)
(***************************************************************************)
VARIABLES
    \* PyATSHandler fields
    testbed,                    \* TRUE when a testbed is loaded
    allowed_commands_set,
    enable_connectivity_tests,
    \* the devices: which sessions are open
    connected,
    \* execute_command_on_devices: position and locals
    pc,
    device_names,
    command_to_execute,
    normalized_command,
    idx,
    all_pyats_results,
    all_connectivity_results,
    device_connectivity_tests,
    connection_error_msg,
    raw_output_str,
    parsed_data,
    cmd_error_str,
    dns_result,
    \* the session-provider and probe operations invoked during the call
    ops,
    \* TroubleshootingManager fields
    pyats_handler,              \* FALSE when self.pyats_handler is None
    report_builder,             \* FALSE when self.report_builder is None
    \* process_alarm / process_user_query: position, arguments and locals
    request_type,
    mpc,
    target_scope,
    chat_history,
    file_uploads,
    llm_data_request,
    unique_commands_from_llm,
    command_idx,
    collected_pyats_results,
    connectivity_test_results_agg,
    investigation_summary,
    \* the Oracle and Coordinator calls of the run, issued and returned
    events,
    \* what the entry point handed to its caller
    final_report,
    \* a caller that repeats a call of the handler: what the first call gave
    first_call

handlerCfg == <<testbed, allowed_commands_set, enable_connectivity_tests>>

callArgs == <<device_names, command_to_execute, normalized_command>>

parseLocals == <<raw_output_str, parsed_data, cmd_error_str>>

\* what no step of a run changes: the manager's fields, and the memory of a
\* caller that uses the handler directly
managerCfg == <<pyats_handler, report_builder, first_call>>

runArgs == <<request_type, target_scope, chat_history, file_uploads>>

mgrVars == <<pyats_handler, report_builder, request_type, mpc, target_scope,
             chat_history, file_uploads, llm_data_request,
             unique_commands_from_llm, command_idx, collected_pyats_results,
             connectivity_test_results_agg, investigation_summary, events,
             final_report, first_call>>

vars == <<testbed, allowed_commands_set, enable_connectivity_tests, connected,
          pc, device_names, command_to_execute, normalized_command, idx,
          all_pyats_results, all_connectivity_results,
          device_connectivity_tests, connection_error_msg, raw_output_str,
          parsed_data, cmd_error_str, dns_result, ops, pyats_handler,
          report_builder, request_type, mpc, target_scope, chat_history,
          file_uploads, llm_data_request, unique_commands_from_llm,
          command_idx, collected_pyats_results,
          connectivity_test_results_agg, investigation_summary, events,
          final_report, first_call>>

(***************************************************************************)
(* Texts the handler produces.                                             *)
(***************************************************************************)
TestbedNotLoadedError == <<"PyATSHandler misconfiguration: Testbed not loaded.">>

NotAllowedError == <<"Command not allowed">>

DeviceNotFoundError == <<"Device not found in testbed.">>

SchemaEmptyError == <<"Parsed output was empty or did not match schema">>

ParserMissingError == <<"Parsing failed (possibly missing parser or device state issue)">>

CommandError == <<"Command execution or parsing error">>

UnexpectedError == <<"Unexpected error during command processing">>

\* f"Connection error: {str(conn_err)}"
ConnectionError(cause) == <<"Connection error", cause>>

\* the text a device returns, by the operation that returned it
ParseRawOutput == <<"device output (parse raw_data)">>

ExecuteOutput == <<"device output (execute)">>

GenieErrorOutput == <<"device output (GenieCommandError.output)">>

RawFailedAfterExecute == <<"Failed to retrieve raw output", "execute error">>

RawFailedAfterCommandError == <<"Failed to retrieve raw output after GenieCommandError.">>

RawFailedAfterGenericError == <<"Failed to retrieve raw output after generic error.">>

\* what device.parse(command, raw_data=True) may return: a value the result
\* schema accepts (dict) or one it rejects, with or without raw_output
ParsedDict == <<"dict">>

ParsedObject == <<"object">>

ParseReturns == {"dict+raw", "dict", "object+raw", "object"}

ParseRaises == {"SchemaEmptyParserError", "AttributeError",
                "GenieCommandError+output", "GenieCommandError", "Exception"}

ParseValue(out) == IF out \in {"dict+raw", "dict"} THEN ParsedDict ELSE ParsedObject

ParseHasRaw(out) == out \in {"dict+raw", "object+raw"}

\* PyATSCommandResult.parsed_output: Optional[Union[Dict, List, str]]
AcceptedParsedOutput(v) == v = None \/ v = ParsedDict

(***************************************************************************)
(* Records.                                                                *)
(***************************************************************************)
\* PyATSCommandResult(device_hostname, command, raw_output, parsed_output, error)
PyATSCommandResult(device, command, raw, parsed, error) ==
    [device_hostname |-> device, command |-> command, raw_output |-> raw,
     parsed_output |-> parsed, error |-> error]

\* ConnectivityTestResult(test_type, target, success)
ConnectivityTestResult(type, target, success) ==
    [test_type |-> type, target |-> target, success |-> success]

\* one invocation of a session-provider or probe operation
Op(i, d, op, out) == [i |-> i, dev |-> d, op |-> op, out |-> out]

(***************************************************************************)
(* PyATSHandler.                                                           *)
(***************************************************************************)

\* str.replace of all whitespace
RECURSIVE RemoveWhitespace(_)
RemoveWhitespace(s) ==
    IF s = <<>> THEN <<>>
    ELSE IF Head(s) \in Whitespace THEN RemoveWhitespace(Tail(s))
    ELSE <<Head(s)>> \o RemoveWhitespace(Tail(s))

\* variant of _is_command_allowed: the comparison ignores all whitespace
IsCommandAllowedIgnoringSpaces(command) ==
    RemoveWhitespace(command) \in {RemoveWhitespace(a) : a \in allowed_commands_set}

\* _is_command_allowed
IsCommandAllowed(command) == command \in allowed_commands_set

\* variant of get_device_object: every name resolves once a testbed is loaded
GetDeviceObjectAnyName(device_name) ==
    IF testbed THEN <<device_name>> ELSE None

\* get_device_object: the device, or None
GetDeviceObject(device_name) ==
    IF testbed /\ device_name \in TestbedDevices THEN <<device_name>> ELSE None

\* variant of the rejections: the loop is left after its first result
RejectFirst(devs, command, error) ==
    IF devs = <<>> THEN <<>>
    ELSE <<PyATSCommandResult(Head(devs), command, None, None, error)>>

\* the "not loaded" and "not allowed" rejections: one result per device
RECURSIVE RejectAll(_, _, _)
RejectAll(devs, command, error) ==
    IF devs = <<>> THEN <<>>
    ELSE <<PyATSCommandResult(Head(devs), command, None, None, error)>>
         \o RejectAll(Tail(devs), command, error)


\* variant of the result construction: error=str(cmd_error_str)
CommandResultStrError(device, command, raw, parsed, error) ==
    PyATSCommandResult(device, command, raw,
                       IF error = None THEN parsed ELSE None,
                       IF error = None THEN <<"None">> ELSE error)

\* the result appended after the parse/execute block
CommandResultOf(device, command, raw, parsed, error) ==
    PyATSCommandResult(device, command, raw,
                       IF error = None THEN parsed ELSE None, error)

\* the target of the ping probe: the inventory address when there is one
TargetForPing(device_name) ==
    IF ConnectionIp(device_name) # None
    THEN ConnectionIp(device_name)[1]
    ELSE device_name

\* "Only run DNS if target_for_ping is likely a hostname"
DnsWanted(target) == ~IsIpLike(target)


\* variant of the summary: the DNS flag repeats the ping flag
ConnectivitySummaryPingTwice(msg, ping_result, dns) ==
    msg \o <<"Connectivity tests run. Ping success", PyStr(ping_result.success)>>
        \o (IF dns # None THEN <<"DNS success", PyStr(ping_result.success)>> ELSE <<>>)

\* connection_error_msg += the success flags of the probes; dns is the
\* dns_result the frame holds at that point: <<result>>, or None when the
\* name is not bound
ConnectivitySummary(msg, ping_result, dns) ==
    msg \o <<"Connectivity tests run. Ping success", PyStr(ping_result.success)>>
        \o (IF dns # None THEN <<"DNS success", PyStr(dns[1].success)>> ELSE <<>>)


\* variant of the switch: the probes run whatever the setting
DiagnosticsAlways == TRUE

\* if self.enable_connectivity_tests
DiagnosticsEnabled == enable_connectivity_tests

CurrentDevice == device_names[idx]

\* entry of execute_command_on_devices, up to the device loop
EnterExecute(devs, command) ==
    /\ device_names' = devs
    /\ command_to_execute' = command
    /\ all_connectivity_results' = <<>>
    /\ device_connectivity_tests' = <<>>
    /\ connection_error_msg' = None
    /\ raw_output_str' = None
    /\ parsed_data' = None
    /\ cmd_error_str' = None
    /\ dns_result' = None
    /\ ops' = <<>>
    /\ idx' = 1
    /\ IF ~testbed
       THEN /\ normalized_command' = None
            /\ all_pyats_results' = RejectAll(devs, command, TestbedNotLoadedError)
            /\ pc' = "returned"
       ELSE /\ normalized_command' = NormalizeCommand(command)
            /\ IF ~IsCommandAllowed(NormalizeCommand(command))
               THEN /\ all_pyats_results' =
                          RejectAll(devs, NormalizeCommand(command), NotAllowedError)
                    /\ pc' = "returned"
               ELSE /\ all_pyats_results' = <<>>
                    /\ pc' = "loop"
    /\ UNCHANGED <<handlerCfg, connected>>

\* for device_name in device_names: resolve the device or record the failure
DeviceLoop ==
    /\ pc = "loop"
    /\ IF idx > Len(device_names)
       THEN /\ pc' = "returned"
            /\ UNCHANGED <<idx, all_pyats_results, device_connectivity_tests,
                           connection_error_msg>>
       ELSE /\ device_connectivity_tests' = <<>>
            /\ IF GetDeviceObject(CurrentDevice) = None
               THEN /\ all_pyats_results' = Append(all_pyats_results,
                          PyATSCommandResult(CurrentDevice, normalized_command,
                                             None, None, DeviceNotFoundError))
                    /\ idx' = idx + 1
                    /\ pc' = "loop"
                    /\ UNCHANGED connection_error_msg
               ELSE /\ connection_error_msg' = None
                    /\ pc' = "connect"
                    /\ UNCHANGED <<idx, all_pyats_results>>
    /\ UNCHANGED <<mgrVars, handlerCfg, connected, callArgs, all_connectivity_results,
                   parseLocals, dns_result, ops>>

\* variant of the connect step: the command block is entered whether or not
\* connect raised
ConnectIgnoringFailure ==
    /\ pc = "connect"
    /\ \E out \in {"ok", "raise"} :
         /\ ops' = Append(ops, Op(idx, CurrentDevice, "connect", out))
         /\ connected' = IF out = "ok" THEN connected \cup {CurrentDevice}
                         ELSE connected
    /\ pc' = "parse"
    /\ raw_output_str' = None
    /\ parsed_data' = None
    /\ cmd_error_str' = None
    /\ UNCHANGED <<mgrVars, handlerCfg, callArgs, idx, all_pyats_results,
                   all_connectivity_results, device_connectivity_tests,
                   connection_error_msg, dns_result>>

\* if not is_connected(): connect(); then the locals of the command block
Connect ==
    /\ pc = "connect"
    /\ IF CurrentDevice \in connected
       THEN /\ pc' = "parse"
            /\ raw_output_str' = None
            /\ parsed_data' = None
            /\ cmd_error_str' = None
            /\ UNCHANGED <<connected, connection_error_msg, ops>>
       ELSE \E out \in {"ok", "raise", "raise, session left open"} :
              /\ ops' = Append(ops, Op(idx, CurrentDevice, "connect", out))
              /\ connected' = IF out = "raise" THEN connected
                              ELSE connected \cup {CurrentDevice}
              /\ IF out = "ok"
                 THEN /\ pc' = "parse"
                      /\ raw_output_str' = None
                      /\ parsed_data' = None
                      /\ cmd_error_str' = None
                      /\ UNCHANGED connection_error_msg
                 ELSE /\ pc' = "finally"
                      /\ connection_error_msg' = ConnectionError("connect failed")
                      /\ UNCHANGED parseLocals
    /\ UNCHANGED <<mgrVars, handlerCfg, callArgs, idx, all_pyats_results,
                   all_connectivity_results, device_connectivity_tests, dns_result>>

\* parse(command, raw_data=True) and the except clauses that follow it
Parse ==
    /\ pc = "parse"
    /\ \E out \in ParseReturns \cup ParseRaises :
         /\ ops' = Append(ops, Op(idx, CurrentDevice, "parse", out))
         /\ CASE out \in ParseReturns ->
                   /\ parsed_data' = ParseValue(out)
                   /\ cmd_error_str' = None
                   /\ IF ParseHasRaw(out)
                      THEN raw_output_str' = ParseRawOutput /\ pc' = "build"
                      ELSE raw_output_str' = None /\ pc' = "execute"
              [] out = "SchemaEmptyParserError" ->
                   /\ cmd_error_str' = SchemaEmptyError
                   /\ parsed_data' = None
                   /\ pc' = IF raw_output_str = None THEN "fallback" ELSE "build"
                   /\ UNCHANGED raw_output_str
              [] out = "AttributeError" ->
                   /\ cmd_error_str' = ParserMissingError
                   /\ parsed_data' = None
                   /\ pc' = IF raw_output_str = None THEN "fallback" ELSE "build"
                   /\ UNCHANGED raw_output_str
              [] out = "GenieCommandError+output" ->
                   /\ cmd_error_str' = CommandError
                   /\ parsed_data' = None
                   /\ raw_output_str' = GenieErrorOutput
                   /\ pc' = "build"
              [] out = "GenieCommandError" ->
                   /\ cmd_error_str' = CommandError
                   /\ parsed_data' = None
                   /\ raw_output_str' = IF raw_output_str = None
                                        THEN RawFailedAfterCommandError
                                        ELSE raw_output_str
                   /\ pc' = "build"
              [] out = "Exception" ->
                   /\ cmd_error_str' = UnexpectedError
                   /\ parsed_data' = None
                   /\ raw_output_str' = IF raw_output_str = None
                                        THEN RawFailedAfterGenericError
                                        ELSE raw_output_str
                   /\ pc' = "build"
    /\ UNCHANGED <<mgrVars, handlerCfg, connected, callArgs, idx, all_pyats_results,
                   all_connectivity_results, device_connectivity_tests,
                   connection_error_msg, dns_result>>

\* the parse carried no raw_output: execute(command) for the raw text; an
\* exception here is taken by "except Exception as e_gen"
ExecuteForRaw ==
    /\ pc = "execute"
    /\ \E out \in {"ok", "raise"} :
         /\ ops' = Append(ops, Op(idx, CurrentDevice, "execute", out))
         /\ IF out = "ok"
            THEN /\ raw_output_str' = ExecuteOutput
                 /\ UNCHANGED <<parsed_data, cmd_error_str>>
            ELSE /\ cmd_error_str' = UnexpectedError
                 /\ parsed_data' = None
                 /\ raw_output_str' = IF raw_output_str = None
                                      THEN RawFailedAfterGenericError
                                      ELSE raw_output_str
    /\ pc' = "build"
    /\ UNCHANGED <<mgrVars, handlerCfg, connected, callArgs, idx, all_pyats_results,
                   all_connectivity_results, device_connectivity_tests,
                   connection_error_msg, dns_result>>

\* inside the SchemaEmptyParserError / AttributeError clause: execute(command)
\* for the raw text, under its own try
FallbackExecute ==
    /\ pc = "fallback"
    /\ \E out \in {"ok", "raise"} :
         /\ ops' = Append(ops, Op(idx, CurrentDevice, "execute", out))
         /\ raw_output_str' = IF out = "ok" THEN ExecuteOutput
                              ELSE RawFailedAfterExecute
    /\ pc' = "build"
    /\ UNCHANGED <<mgrVars, handlerCfg, connected, callArgs, idx, all_pyats_results,
                   all_connectivity_results, device_connectivity_tests,
                   connection_error_msg, parsed_data, cmd_error_str, dns_result>>

\* all_pyats_results.append(PyATSCommandResult(...)); a value the schema
\* rejects raises inside the outer try and is taken by "except Exception as
\* conn_err"
BuildResult ==
    /\ pc = "build"
    /\ LET r == CommandResultOf(CurrentDevice, normalized_command,
                                raw_output_str, parsed_data, cmd_error_str)
       IN  IF AcceptedParsedOutput(r.parsed_output)
           THEN /\ all_pyats_results' = Append(all_pyats_results, r)
                /\ UNCHANGED connection_error_msg
           ELSE /\ connection_error_msg' = ConnectionError("validation error")
                /\ UNCHANGED all_pyats_results
    /\ pc' = "finally"
    /\ UNCHANGED <<mgrVars, handlerCfg, connected, callArgs, idx,
                   all_connectivity_results, device_connectivity_tests,
                   parseLocals, dns_result, ops>>

\* finally: if is_connected(): disconnect(); an exception of disconnect
\* leaves the function
FinallyDisconnect ==
    /\ pc = "finally"
    /\ IF CurrentDevice \in connected
       THEN \E out \in {"ok", "raise", "raise, session left open"} :
              /\ ops' = Append(ops, Op(idx, CurrentDevice, "disconnect", out))
              /\ connected' = IF out = "raise, session left open" THEN connected
                              ELSE connected \ {CurrentDevice}
              /\ pc' = IF out = "ok" THEN "report" ELSE "raised"
       ELSE /\ pc' = "report"
            /\ UNCHANGED <<connected, ops>>
    /\ UNCHANGED <<mgrVars, handlerCfg, callArgs, idx, all_pyats_results,
                   all_connectivity_results, device_connectivity_tests,
                   connection_error_msg, parseLocals, dns_result>>

\* if connection_error_msg: the probes (when enabled) and the error result
ReportConnectionFailure ==
    /\ pc = "report"
    /\ IF connection_error_msg = None
       THEN UNCHANGED <<all_pyats_results, device_connectivity_tests,
                        connection_error_msg, dns_result, ops>>
       ELSE IF ~DiagnosticsEnabled
       THEN /\ all_pyats_results' = Append(all_pyats_results,
                  PyATSCommandResult(CurrentDevice, normalized_command,
                                     None, None, connection_error_msg))
            /\ UNCHANGED <<device_connectivity_tests, connection_error_msg,
                           dns_result, ops>>
       ELSE \E ping_ok \in BOOLEAN, dns_ok \in BOOLEAN :
              LET target == TargetForPing(CurrentDevice)
                  ping_result == ConnectivityTestResult("ping", target, ping_ok)
                  run_dns == DnsWanted(target)
                  new_dns == ConnectivityTestResult("dns_resolution",
                                                    CurrentDevice, dns_ok)
                  dns_now == IF run_dns THEN <<new_dns>> ELSE dns_result
                  msg == ConnectivitySummary(connection_error_msg,
                                             ping_result, dns_now)
              IN  /\ run_dns \/ ~dns_ok
                  /\ device_connectivity_tests' =
                        IF run_dns THEN <<ping_result, new_dns>>
                        ELSE <<ping_result>>
                  /\ dns_result' = dns_now
                  /\ ops' = ops
                        \o <<Op(idx, CurrentDevice, "ping", PyStr(ping_ok))>>
                        \o (IF run_dns
                            THEN <<Op(idx, CurrentDevice, "dns", PyStr(dns_ok))>>
                            ELSE <<>>)
                  /\ connection_error_msg' = msg
                  /\ all_pyats_results' = Append(all_pyats_results,
                        PyATSCommandResult(CurrentDevice, normalized_command,
                                           None, None, msg))
    /\ pc' = "extend"
    /\ UNCHANGED <<mgrVars, handlerCfg, connected, callArgs, idx,
                   all_connectivity_results, parseLocals>>

\* all_connectivity_results.extend(device_connectivity_tests); next device
ExtendConnectivity ==
    /\ pc = "extend"
    /\ all_connectivity_results' =
          all_connectivity_results \o device_connectivity_tests
    /\ idx' = idx + 1
    /\ pc' = "loop"
    /\ UNCHANGED <<mgrVars, handlerCfg, connected, callArgs, all_pyats_results,
                   device_connectivity_tests, connection_error_msg,
                   parseLocals, dns_result, ops>>

\* the call is over and its frame is gone
LeaveExecute ==
    /\ pc' = "idle"
    /\ device_names' = <<>>
    /\ command_to_execute' = None
    /\ normalized_command' = None
    /\ idx' = 1
    /\ all_pyats_results' = <<>>
    /\ all_connectivity_results' = <<>>
    /\ device_connectivity_tests' = <<>>
    /\ connection_error_msg' = None
    /\ raw_output_str' = None
    /\ parsed_data' = None
    /\ cmd_error_str' = None
    /\ dns_result' = None
    /\ ops' = <<>>
    /\ UNCHANGED <<handlerCfg, connected>>

(***************************************************************************)
(* A caller that uses the handler directly, call after call.               *)
(***************************************************************************)
DirectCall ==
    /\ pc = "idle"
    /\ mpc = "idle"
    /\ \E devs \in ListsUpTo(DeviceNames, MaxDevs), command \in CommandInputs :
         EnterExecute(devs, command)
    /\ UNCHANGED mgrVars

\* control is back at the caller, with the results or with the exception
DirectReturn ==
    /\ pc \in {"returned", "raised"}
    /\ mpc = "idle"
    /\ LeaveExecute
    /\ UNCHANGED mgrVars

\* no call of the handler is in progress
HandlerIdle ==
    /\ connected = {}
    /\ pc = "idle"
    /\ device_names = <<>>
    /\ command_to_execute = None
    /\ normalized_command = None
    /\ idx = 1
    /\ all_pyats_results = <<>>
    /\ all_connectivity_results = <<>>
    /\ device_connectivity_tests = <<>>
    /\ connection_error_msg = None
    /\ raw_output_str = None
    /\ parsed_data = None
    /\ cmd_error_str = None
    /\ dns_result = None
    /\ ops = <<>>

\* no run of the manager is in progress
ManagerIdle ==
    /\ request_type = None
    /\ mpc = "idle"
    /\ target_scope = <<>>
    /\ chat_history = <<>>
    /\ file_uploads = <<>>
    /\ llm_data_request = None
    /\ unique_commands_from_llm = <<>>
    /\ command_idx = 1
    /\ collected_pyats_results = <<>>
    /\ connectivity_test_results_agg = <<>>
    /\ investigation_summary = <<>>
    /\ events = <<>>
    /\ final_report = None
    /\ first_call = None

\* PyATSHandler.__init__, for a handler used on its own
Init ==
    /\ testbed \in BOOLEAN
    /\ allowed_commands_set = {NormalizeCommand(c) : c \in AllowedCommandsConfig}
    /\ enable_connectivity_tests \in BOOLEAN
    /\ HandlerIdle
    /\ pyats_handler = TRUE
    /\ report_builder = TRUE
    /\ ManagerIdle

Next ==
    \/ DirectCall
    \/ DeviceLoop
    \/ Connect
    \/ Parse
    \/ ExecuteForRaw
    \/ FallbackExecute
    \/ BuildResult
    \/ FinallyDisconnect
    \/ ReportConnectionFailure
    \/ ExtendConnectivity
    \/ DirectReturn

Spec == Init /\ [][Next]_vars

(***************************************************************************)
(* TroubleshootingManager: the Oracle's answers and the requests.          *)
(* manager.py is read by its statements in order: the two stray branches   *)
(* at lines 219-224 attach to no "if" and are left out, and the "try" at   *)
(* line 402 has no handler, so an exception inside it leaves the function. *)
(***************************************************************************)
\* PyATSCommandRequest(command, devices)
PyATSCommandRequest(command, devices) == [command |-> command, devices |-> devices]

\* LLMDataRequestAction(thought, pyats_commands, ask_user_clarification)
LLMDataRequestAction(thought, commands, question) ==
    [thought |-> thought, pyats_commands |-> commands,
     ask_user_clarification |-> question]

\* LLMAnalysisResult(overall_assessment, key_findings)
LLMAnalysisResult(assessment, findings) ==
    [overall_assessment |-> assessment, key_findings |-> findings]

Thought == <<"check the interface">>

Question == <<"Which building?">>

ShowVersion == <<"s", " ", "v">>

ShowVersionSpaced == <<" ", "s", "\t", " ", "v", " ">>

NotListed == <<"s", "v">>

\* the ActionRequests the Oracle may answer with
ActionRequests ==
    { LLMDataRequestAction(None, <<>>, None),
      LLMDataRequestAction(Thought, <<>>, None),
      LLMDataRequestAction(None, <<>>, Question),
      LLMDataRequestAction(Thought, <<PyATSCommandRequest(ShowVersion, <<"R1">>)>>, None),
      LLMDataRequestAction(None, <<PyATSCommandRequest(ShowVersion, <<>>)>>, None),
      LLMDataRequestAction(None, <<PyATSCommandRequest(ShowVersion, <<"R1">>)>>, Question),
      LLMDataRequestAction(None, <<PyATSCommandRequest(ShowVersion, <<"R9", "R1">>),
                                   PyATSCommandRequest(ShowVersion, <<"R1">>)>>, None),
      LLMDataRequestAction(None, <<PyATSCommandRequest(ShowVersion, <<"R1">>),
                                   PyATSCommandRequest(ShowVersionSpaced, <<"R1">>)>>, None),
      LLMDataRequestAction(None, <<PyATSCommandRequest(NotListed, <<"R2">>)>>, None),
      LLMDataRequestAction(None, <<PyATSCommandRequest(<<>>, <<"R1">>)>>, None) }

\* target_scope.device_hostnames of a run
TargetScopes == { <<>>, <<"R1">>, <<"R2", "R1">> }

\* chat_history and file_uploads of a user query: empty, or one entry
ChatHistories == { <<>>, <<"earlier message">> }

FileUploads == { <<>>, <<"log snippet">> }

\* the analysis the Oracle returns when the call succeeds
OracleAnalysis == LLMAnalysisResult(<<"ok">>, <<>>)

\* str(e) of a failed Oracle call and of an exception leaving the handler
OracleErrorText == "oracle error"

CoordinatorErrorText == "disconnect error"

\* f"{len(...)}"
IntStr(n) ==
    CASE n = 0 -> "0" [] n = 1 -> "1" [] n = 2 -> "2" [] n = 3 -> "3"

\* ord(c) of the characters of device names
Ord(c) ==
    CASE c = "." -> 46 [] c = "0" -> 48 [] c = "1" -> 49 [] c = "2" -> 50
      [] c = "9" -> 57 [] c = "R" -> 82

\* a < b for str
RECURSIVE SeqLess(_, _)
SeqLess(a, b) ==
    IF b = <<>> THEN FALSE
    ELSE IF a = <<>> THEN TRUE
    ELSE IF Ord(Head(a)) # Ord(Head(b)) THEN Ord(Head(a)) < Ord(Head(b))
    ELSE SeqLess(Tail(a), Tail(b))

\* sorted(list(set(...)))
RECURSIVE Sorted(_)
Sorted(S) ==
    IF S = {} THEN <<>>
    ELSE LET m == CHOOSE x \in S :
                     \A y \in S \ {x} : SeqLess(Chars(x), Chars(y))
         IN  <<m>> \o Sorted(S \ {m})

\* the elements of a sequence
Range(q) == {q[k] : k \in 1..Len(q)}

\* list(set(...)): the elements in an order the code does not choose
ListsOfSet(S) == {q \in ListsUpTo(S, Cardinality(S)) : Len(q) = Cardinality(S)}

\* set(cmd_req.command for cmd_req in pyats_commands if cmd_req.command)
RequestedCommands(request) ==
    {request.pyats_commands[k].command : k \in 1..Len(request.pyats_commands)}
        \ {<<>>}

\* cmd_req.devices or target_scope.device_hostnames or []
DevicesOfRequest(cmd_req, scope) ==
    IF cmd_req.devices # <<>> THEN cmd_req.devices ELSE scope

\* devices_for_current_command, as a set, without empty names
DevicesForCommand(request, scope, command_str) ==
    UNION {Range(DevicesOfRequest(request.pyats_commands[k], scope)) :
             k \in {j \in 1..Len(request.pyats_commands) :
                      request.pyats_commands[j].command = command_str}}
        \ {""}

\* unique_devices_for_command
UniqueDevicesForCommand(request, scope, command_str) ==
    Sorted(DevicesForCommand(request, scope, command_str))

\* one Oracle or Coordinator call, issued or returned
Event(ev, what, how) == [ev |-> ev, what |-> what, how |-> how]

\* TroubleshootingReport(...)
TroubleshootingReport(type, scope, summary, devices, tests, results, analysis) ==
    [request_type |-> type, target_scope |-> scope,
     investigation_summary |-> summary, devices_investigated |-> devices,
     connectivity_test_results |-> tests, pyats_command_results |-> results,
     llm_analysis |-> analysis]

\* what the caller receives: a Report, an InterimChatResponse, an exception
Returned(kind, value) == [kind |-> kind, value |-> value]

\* set(res.device_hostname for res in collected_pyats_results)
DevicesOfResults(results) == {results[k].device_hostname : k \in 1..Len(results)}

\* the analyses the manager writes itself
AnalysisFailed ==
    LLMAnalysisResult(<<"LLM analysis failed. Review collected data manually.">>,
                      <<"LLM analysis could not be performed due to an error.">>)

SimpleAssessmentFailed ==
    LLMAnalysisResult(<<"Initial LLM assessment failed. Alarm details may be insufficient or LLM error.">>,
                      <<"No device data was collected.",
                        "LLM could not provide an initial assessment.">>)

\* variant: the synthesized analysis does not quote the question
PendingClarificationUnquoted(question) ==
    LLMAnalysisResult(<<"Further action pending user clarification.",
                        "LLM requested clarification">>,
                      <<"LLM requested clarification">>)

PendingClarification(question) ==
    LLMAnalysisResult(<<"Further action pending user clarification.",
                        "LLM requested clarification">> \o question,
                      <<"LLM requested clarification">> \o question)

NoActionsAnalysis ==
    LLMAnalysisResult(<<"Initial LLM interaction for data gathering failed or yielded no actions. Cannot proceed with data-driven analysis.">>,
                      <<"Failed to determine data gathering steps via LLM.">>)

\* the messages of the InterimChatResponses
HandlerUnavailableMessage ==
    <<"I identified some commands to run, but I'm currently unable to connect to network devices. Please check my configuration.">>

AnalysisErrorMessage ==
    <<"I encountered an error trying to analyze the collected data", OracleErrorText>>

NoReportBuilderMessage ==
    <<"I have processed your query and have some findings, but I'm unable to generate a formatted report at the moment.">>

GenericAnswerMessage ==
    <<"I've processed your query. Is there anything else I can help with?">>

UnexpectedStateMessage ==
    <<"I've processed your request. If commands were run, I'll analyze the data. If not, I might need more information or your query was general.">>

handlerVars == <<handlerCfg, connected, pc, callArgs, idx, all_pyats_results,
                 all_connectivity_results, device_connectivity_tests,
                 connection_error_msg, parseLocals, dns_result, ops>>

runLocals == <<llm_data_request, unique_commands_from_llm, command_idx,
               collected_pyats_results, connectivity_test_results_agg>>

\* variant of the first Oracle call: issued without the capabilities summary
FirstOracleCallWithoutCapabilities ==
    Event("oracle_call", "LLMDataRequestAction", "query only")

\* the first Oracle call of a run: schema LLMDataRequestAction, with the
\* capabilities summary
FirstOracleCall == Event("oracle_call", "LLMDataRequestAction", "capabilities")

\* variant: the analysis call carries the capabilities summary too
AnalysisOracleCallWithCapabilities(what) ==
    Event("oracle_call", "LLMAnalysisResult", "capabilities")

\* an Oracle call for an LLMAnalysisResult, without capabilities summary
AnalysisOracleCall(what) == Event("oracle_call", "LLMAnalysisResult", what)

\* the entry of process_alarm / process_user_query, up to the first await
EnterRun(type, scope, history, uploads, summary) ==
    /\ request_type' = type
    /\ target_scope' = scope
    /\ chat_history' = history
    /\ file_uploads' = uploads
    /\ llm_data_request' = None
    /\ unique_commands_from_llm' = <<>>
    /\ command_idx' = 1
    /\ collected_pyats_results' = <<>>
    /\ connectivity_test_results_agg' = <<>>
    /\ investigation_summary' = summary
    /\ events' = <<FirstOracleCall>>
    /\ final_report' = None
    /\ mpc' = "await_action"
    /\ UNCHANGED <<managerCfg, handlerVars>>

\* the run hands value to its caller
Return(kind, value) ==
    /\ final_report' = <<Returned(kind, value)>>
    /\ mpc' = "done"

\* variant: devices_investigated taken from the target scope
ReturnReportScopeDevices(type, summary, analysis) ==
    Return("Report",
           TroubleshootingReport(type, target_scope, summary, target_scope,
                                 connectivity_test_results_agg,
                                 collected_pyats_results, analysis))

\* devices_investigated=list(set(...)) and the construction of the report
ReturnReport(type, summary, analysis) ==
    \E devices \in ListsOfSet(DevicesOfResults(collected_pyats_results)) :
        Return("Report",
               TroubleshootingReport(type, target_scope, summary, devices,
                                     connectivity_test_results_agg,
                                     collected_pyats_results, analysis))

\* step 4 of process_alarm: with or without a ReportBuilder
ReturnAlarmReport(summary, analysis) ==
    IF ~report_builder
    THEN ReturnReport("alarm",
                      summary \o <<"ReportBuilder failed to initialize.">>,
                      analysis)
    ELSE ReturnReport("alarm", summary, analysis)

\* process_alarm is called
AlarmStart ==
    /\ mpc = "idle"
    /\ pc = "idle"
    /\ \E scope \in TargetScopes :
         EnterRun("alarm", scope, <<>>, <<>>, <<"Initial investigation for alarm">>)

\* variant: a clarification question sends the run to its analysis without
\* the commands
AlarmActionReturnedHaltingOnQuestion ==
    /\ mpc = "await_action"
    /\ request_type = "alarm"
    /\ \/ /\ events' = Append(events,
                Event("oracle_return", "LLMDataRequestAction", "raise"))
          /\ investigation_summary' =
                investigation_summary \o <<"Error encountered", OracleErrorText>>
          /\ mpc' = "analysis"
          /\ UNCHANGED runLocals
       \/ \E r \in ActionRequests :
            LET noted == IF r.ask_user_clarification # None
                         THEN investigation_summary
                                \o <<"LLM requested clarification">>
                                \o r.ask_user_clarification
                         ELSE investigation_summary
            IN  /\ events' = Append(events,
                      Event("oracle_return", "LLMDataRequestAction", "ok"))
                /\ llm_data_request' = <<r>>
                /\ IF /\ pyats_handler /\ r.pyats_commands # <<>>
                      /\ r.ask_user_clarification = None
                   THEN /\ unique_commands_from_llm' \in
                              ListsOfSet(RequestedCommands(r))
                        /\ investigation_summary' = noted
                        /\ mpc' = "commands"
                   ELSE /\ investigation_summary' = noted \o
                              <<"No pyATS commands were executed based on LLM's request or device availability.">>
                        /\ mpc' = "analysis"
                        /\ UNCHANGED unique_commands_from_llm
                /\ UNCHANGED <<command_idx, collected_pyats_results,
                               connectivity_test_results_agg>>
    /\ UNCHANGED <<managerCfg, runArgs, final_report, handlerVars>>

\* the first Oracle call is over: the except clause of line 226 when it
\* raised, else the clarification note and the choice of the commands
AlarmActionReturned ==
    /\ mpc = "await_action"
    /\ request_type = "alarm"
    /\ \/ /\ events' = Append(events,
                Event("oracle_return", "LLMDataRequestAction", "raise"))
          /\ investigation_summary' =
                investigation_summary \o <<"Error encountered", OracleErrorText>>
          /\ mpc' = "analysis"
          /\ UNCHANGED runLocals
       \/ \E r \in ActionRequests :
            LET noted == IF r.ask_user_clarification # None
                         THEN investigation_summary
                                \o <<"LLM requested clarification">>
                                \o r.ask_user_clarification
                         ELSE investigation_summary
            IN  /\ events' = Append(events,
                      Event("oracle_return", "LLMDataRequestAction", "ok"))
                /\ llm_data_request' = <<r>>
                /\ IF pyats_handler /\ r.pyats_commands # <<>>
                   THEN /\ unique_commands_from_llm' \in
                              ListsOfSet(RequestedCommands(r))
                        /\ investigation_summary' = noted
                        /\ mpc' = "commands"
                   ELSE /\ investigation_summary' = noted \o
                              <<"No pyATS commands were executed based on LLM's request or device availability.">>
                        /\ mpc' = "analysis"
                        /\ UNCHANGED unique_commands_from_llm
                /\ UNCHANGED <<command_idx, collected_pyats_results,
                               connectivity_test_results_agg>>
    /\ UNCHANGED <<managerCfg, runArgs, final_report, handlerVars>>

\* for command_str in unique_commands_from_llm: the devices of the command
\* and the call of the Coordinator; after the loop, the summary line
AlarmCommandLoop ==
    /\ mpc = "commands"
    /\ request_type = "alarm"
    /\ IF command_idx > Len(unique_commands_from_llm)
       THEN /\ investigation_summary' = investigation_summary \o
                 (IF collected_pyats_results # <<>>
                  THEN <<"Executed", IntStr(Len(unique_commands_from_llm)),
                         "unique command(s) across relevant devices.">>
                  ELSE <<"No pyATS commands were executed based on LLM's request or device availability.">>)
            /\ mpc' = "analysis"
            /\ UNCHANGED <<command_idx, events, handlerVars>>
       ELSE LET command_str == unique_commands_from_llm[command_idx]
                devs == UniqueDevicesForCommand(llm_data_request[1],
                                                target_scope, command_str)
            IN  IF devs = <<>>
                THEN /\ command_idx' = command_idx + 1
                     /\ UNCHANGED <<mpc, investigation_summary, events,
                                    handlerVars>>
                ELSE /\ EnterExecute(devs, command_str)
                     /\ events' = Append(events,
                           Event("coordinator_call", devs, command_str))
                     /\ mpc' = "executing"
                     /\ UNCHANGED <<command_idx, investigation_summary>>
    /\ UNCHANGED <<managerCfg, runArgs, llm_data_request,
                   unique_commands_from_llm, collected_pyats_results,
                   connectivity_test_results_agg, final_report>>

\* execute_command_on_devices is over: its results are collected, or its
\* exception is taken by the except clause of line 226
AlarmCoordinatorReturned ==
    /\ mpc = "executing"
    /\ request_type = "alarm"
    /\ pc \in {"returned", "raised"}
    /\ IF pc = "returned"
       THEN /\ collected_pyats_results' =
                  collected_pyats_results \o all_pyats_results
            /\ connectivity_test_results_agg' =
                  connectivity_test_results_agg \o all_connectivity_results
            /\ events' = Append(events, Event("coordinator_return",
                               device_names, "ok"))
            /\ command_idx' = command_idx + 1
            /\ mpc' = "commands"
            /\ UNCHANGED investigation_summary
       ELSE /\ events' = Append(events, Event("coordinator_return",
                               device_names, "raise"))
            /\ investigation_summary' = investigation_summary \o
                  <<"Error encountered", CoordinatorErrorText>>
            /\ mpc' = "analysis"
            /\ UNCHANGED <<command_idx, collected_pyats_results,
                           connectivity_test_results_agg>>
    /\ LeaveExecute
    /\ UNCHANGED <<managerCfg, runArgs, llm_data_request,
                   unique_commands_from_llm, final_report>>

\* variant: the analysis step does not wait for the Coordinator invocation
\* under way
AlarmAnalysisNotAwaitingCoordinator ==
    /\ mpc \in {"analysis", "executing"}
    /\ request_type = "alarm"
    /\ IF collected_pyats_results # <<>>
       THEN /\ events' = Append(events, AnalysisOracleCall("collected data"))
            /\ mpc' = "await_analysis"
            /\ UNCHANGED <<investigation_summary, final_report>>
       ELSE IF llm_data_request = None
       THEN /\ Return("exception", <<"UnboundLocalError">>)
            /\ UNCHANGED <<investigation_summary, events>>
       ELSE IF /\ llm_data_request[1].pyats_commands = <<>>
               /\ llm_data_request[1].ask_user_clarification = None
       THEN /\ events' = Append(events, AnalysisOracleCall("alarm only"))
            /\ mpc' = "await_simple"
            /\ UNCHANGED <<investigation_summary, final_report>>
       ELSE IF llm_data_request[1].ask_user_clarification # None
       THEN LET summary == investigation_summary
                              \o <<"LLM requested clarification">>
                              \o llm_data_request[1].ask_user_clarification
            IN  /\ investigation_summary' = summary
                /\ ReturnAlarmReport(summary,
                      <<PendingClarification(
                            llm_data_request[1].ask_user_clarification)>>)
                /\ UNCHANGED events
       ELSE /\ ReturnAlarmReport(investigation_summary, <<NoActionsAnalysis>>)
            /\ UNCHANGED <<investigation_summary, events>>
    /\ UNCHANGED <<managerCfg, runArgs, runLocals, handlerVars>>

\* variant: no assessment from the alarm alone; the run without commands
\* and without a question goes for the synthesized analysis
AlarmAnalysisWithoutAssessment ==
    /\ mpc = "analysis"
    /\ request_type = "alarm"
    /\ IF collected_pyats_results # <<>>
       THEN /\ events' = Append(events, AnalysisOracleCall("collected data"))
            /\ mpc' = "await_analysis"
            /\ UNCHANGED <<investigation_summary, final_report>>
       ELSE IF llm_data_request = None
       THEN /\ Return("exception", <<"UnboundLocalError">>)
            /\ UNCHANGED <<investigation_summary, events>>
       ELSE IF llm_data_request[1].ask_user_clarification # None
       THEN LET summary == investigation_summary
                              \o <<"LLM requested clarification">>
                              \o llm_data_request[1].ask_user_clarification
            IN  /\ investigation_summary' = summary
                /\ ReturnAlarmReport(summary,
                      <<PendingClarification(
                            llm_data_request[1].ask_user_clarification)>>)
                /\ UNCHANGED events
       ELSE /\ ReturnAlarmReport(investigation_summary, <<NoActionsAnalysis>>)
            /\ UNCHANGED <<investigation_summary, events>>
    /\ UNCHANGED <<managerCfg, runArgs, runLocals, handlerVars>>

\* step 3 of process_alarm: which analysis the run goes for.  The name
\* llm_data_request is not bound when the first Oracle call raised, and the
\* elif of line 279 reads it
AlarmAnalysis ==
    /\ mpc = "analysis"
    /\ request_type = "alarm"
    /\ IF collected_pyats_results # <<>>
       THEN /\ events' = Append(events, AnalysisOracleCall("collected data"))
            /\ mpc' = "await_analysis"
            /\ UNCHANGED <<investigation_summary, final_report>>
       ELSE IF llm_data_request = None
       THEN /\ Return("exception", <<"UnboundLocalError">>)
            /\ UNCHANGED <<investigation_summary, events>>
       ELSE IF /\ llm_data_request[1].pyats_commands = <<>>
               /\ llm_data_request[1].ask_user_clarification = None
       THEN /\ events' = Append(events, AnalysisOracleCall("alarm only"))
            /\ mpc' = "await_simple"
            /\ UNCHANGED <<investigation_summary, final_report>>
       ELSE IF llm_data_request[1].ask_user_clarification # None
       THEN LET summary == investigation_summary
                              \o <<"LLM requested clarification">>
                              \o llm_data_request[1].ask_user_clarification
            IN  /\ investigation_summary' = summary
                /\ ReturnAlarmReport(summary,
                      <<PendingClarification(
                            llm_data_request[1].ask_user_clarification)>>)
                /\ UNCHANGED events
       ELSE /\ ReturnAlarmReport(investigation_summary, <<NoActionsAnalysis>>)
            /\ UNCHANGED <<investigation_summary, events>>
    /\ UNCHANGED <<managerCfg, runArgs, runLocals, handlerVars>>

\* the analysis call (lines 258-278) or the simple assessment call (lines
\* 280-302) is over; then the report
AlarmAnalysisReturned ==
    /\ mpc \in {"await_analysis", "await_simple"}
    /\ request_type = "alarm"
    /\ \E out \in {"ok", "raise"} :
         LET summary == investigation_summary \o
                 (CASE mpc = "await_analysis" /\ out = "ok" ->
                         <<"LLM analysis completed. Assessment">>
                             \o OracleAnalysis.overall_assessment
                    [] mpc = "await_analysis" /\ out = "raise" ->
                         <<"Error during LLM analysis", OracleErrorText>>
                    [] mpc = "await_simple" /\ out = "ok" ->
                         <<"LLM provided a general assessment based on alarm details only.">>
                    [] mpc = "await_simple" /\ out = "raise" ->
                         <<"Error during simple LLM assessment", OracleErrorText>>)
             analysis == IF out = "ok" THEN OracleAnalysis
                         ELSE IF mpc = "await_analysis" THEN AnalysisFailed
                         ELSE SimpleAssessmentFailed
         IN  /\ events' = Append(events,
                   Event("oracle_return", "LLMAnalysisResult", out))
             /\ investigation_summary' = summary
             /\ ReturnAlarmReport(summary, <<analysis>>)
    /\ UNCHANGED <<managerCfg, runArgs, runLocals, handlerVars>>

\* process_user_query is called
QueryStart ==
    /\ mpc = "idle"
    /\ pc = "idle"
    /\ \E scope \in TargetScopes, history \in ChatHistories,
          uploads \in FileUploads :
         EnterRun("user_query", scope, history, uploads, <<>>)

\* variant of the end of the first Oracle call: without a handler the
\* requested commands are dropped and the run goes on to step 4
QueryActionReturnedDroppingCommands ==
    /\ mpc = "await_action"
    /\ request_type = "user_query"
    /\ \/ /\ events' = Append(events,
                Event("oracle_return", "LLMDataRequestAction", "raise"))
          /\ Return("exception", <<OracleErrorText>>)
          /\ UNCHANGED <<runLocals, investigation_summary>>
       \/ \E r \in ActionRequests :
            /\ events' = Append(events,
                  Event("oracle_return", "LLMDataRequestAction", "ok"))
            /\ llm_data_request' = <<r>>
            /\ investigation_summary' = <<"Investigation based on user query">>
            /\ IF r.pyats_commands # <<>> /\ pyats_handler
               THEN /\ unique_commands_from_llm' \in
                          ListsOfSet(RequestedCommands(r))
                    /\ mpc' = "commands"
               ELSE /\ mpc' = "analysis"
                    /\ UNCHANGED unique_commands_from_llm
            /\ UNCHANGED <<command_idx, collected_pyats_results,
                           connectivity_test_results_agg, final_report>>
    /\ UNCHANGED <<managerCfg, runArgs, handlerVars>>

\* the first Oracle call of process_user_query is over: its exception leaves
\* the function; else the commands, or the reply that there is no handler
QueryActionReturned ==
    /\ mpc = "await_action"
    /\ request_type = "user_query"
    /\ \/ /\ events' = Append(events,
                Event("oracle_return", "LLMDataRequestAction", "raise"))
          /\ Return("exception", <<OracleErrorText>>)
          /\ UNCHANGED <<runLocals, investigation_summary>>
       \/ \E r \in ActionRequests :
            /\ events' = Append(events,
                  Event("oracle_return", "LLMDataRequestAction", "ok"))
            /\ llm_data_request' = <<r>>
            /\ IF r.pyats_commands # <<>> /\ pyats_handler
               THEN /\ unique_commands_from_llm' \in
                          ListsOfSet(RequestedCommands(r))
                    /\ investigation_summary' =
                          <<"Investigation based on user query">>
                    /\ mpc' = "commands"
                    /\ UNCHANGED final_report
               ELSE IF r.pyats_commands # <<>> /\ ~pyats_handler
               THEN /\ investigation_summary' =
                          <<"Investigation based on user query",
                            "PyATSHandler not available, commands not executed.">>
                    /\ Return("InterimChatResponse", HandlerUnavailableMessage)
                    /\ UNCHANGED unique_commands_from_llm
               ELSE /\ investigation_summary' =
                          <<"Investigation based on user query">>
                    /\ mpc' = "analysis"
                    /\ UNCHANGED <<unique_commands_from_llm, final_report>>
            /\ UNCHANGED <<command_idx, collected_pyats_results,
                           connectivity_test_results_agg>>
    /\ UNCHANGED <<managerCfg, runArgs, handlerVars>>

\* for command_str in unique_commands_from_llm (lines 422-438), then the
\* summary line
QueryCommandLoop ==
    /\ mpc = "commands"
    /\ request_type = "user_query"
    /\ IF command_idx > Len(unique_commands_from_llm)
       THEN /\ investigation_summary' = investigation_summary \o
                 <<"Executed", IntStr(Len(unique_commands_from_llm)),
                   "command(s).">>
            /\ mpc' = "analysis"
            /\ UNCHANGED <<command_idx, events, handlerVars>>
       ELSE LET command_str == unique_commands_from_llm[command_idx]
                devs == UniqueDevicesForCommand(llm_data_request[1],
                                                target_scope, command_str)
            IN  IF devs = <<>>
                THEN /\ command_idx' = command_idx + 1
                     /\ UNCHANGED <<mpc, investigation_summary, events,
                                    handlerVars>>
                ELSE /\ EnterExecute(devs, command_str)
                     /\ events' = Append(events,
                           Event("coordinator_call", devs, command_str))
                     /\ mpc' = "executing"
                     /\ UNCHANGED <<command_idx, investigation_summary>>
    /\ UNCHANGED <<managerCfg, runArgs, llm_data_request,
                   unique_commands_from_llm, collected_pyats_results,
                   connectivity_test_results_agg, final_report>>

\* variant of the end of a Coordinator invocation: the returned probes
\* replace the aggregate instead of extending it
QueryCoordinatorReturnedReplacingTests ==
    /\ mpc = "executing"
    /\ request_type = "user_query"
    /\ pc \in {"returned", "raised"}
    /\ IF pc = "returned"
       THEN /\ collected_pyats_results' =
                  collected_pyats_results \o all_pyats_results
            /\ connectivity_test_results_agg' = all_connectivity_results
            /\ events' = Append(events, Event("coordinator_return",
                               device_names, "ok"))
            /\ command_idx' = command_idx + 1
            /\ mpc' = "commands"
            /\ UNCHANGED final_report
       ELSE /\ events' = Append(events, Event("coordinator_return",
                               device_names, "raise"))
            /\ Return("exception", <<CoordinatorErrorText>>)
            /\ UNCHANGED <<command_idx, collected_pyats_results,
                           connectivity_test_results_agg>>
    /\ LeaveExecute
    /\ UNCHANGED <<managerCfg, runArgs, llm_data_request,
                   unique_commands_from_llm, investigation_summary>>

\* execute_command_on_devices is over: its results are collected, or its
\* exception leaves process_user_query
QueryCoordinatorReturned ==
    /\ mpc = "executing"
    /\ request_type = "user_query"
    /\ pc \in {"returned", "raised"}
    /\ IF pc = "returned"
       THEN /\ collected_pyats_results' =
                  collected_pyats_results \o all_pyats_results
            /\ connectivity_test_results_agg' =
                  connectivity_test_results_agg \o all_connectivity_results
            /\ events' = Append(events, Event("coordinator_return",
                               device_names, "ok"))
            /\ command_idx' = command_idx + 1
            /\ mpc' = "commands"
            /\ UNCHANGED final_report
       ELSE /\ events' = Append(events, Event("coordinator_return",
                               device_names, "raise"))
            /\ Return("exception", <<CoordinatorErrorText>>)
            /\ UNCHANGED <<command_idx, collected_pyats_results,
                           connectivity_test_results_agg>>
    /\ LeaveExecute
    /\ UNCHANGED <<managerCfg, runArgs, llm_data_request,
                   unique_commands_from_llm, investigation_summary>>

\* variant of step 5: the clarification question is never returned
QueryRespondWithoutQuestion(analysis, summary) ==
    LET r == llm_data_request[1]
    IN  IF analysis # None
        THEN IF ~report_builder
             THEN Return("InterimChatResponse", NoReportBuilderMessage)
             ELSE ReturnReport("user_query", summary, analysis)
        ELSE IF r.pyats_commands = <<>> /\ r.ask_user_clarification = None
        THEN Return("InterimChatResponse",
                    IF r.thought # None THEN r.thought ELSE GenericAnswerMessage)
        ELSE Return("InterimChatResponse", UnexpectedStateMessage)

\* variant of step 5: the reasoning note is never used as the answer
QueryRespondGenericOnly(analysis, summary) ==
    LET r == llm_data_request[1]
    IN  IF r.ask_user_clarification # None /\ collected_pyats_results = <<>>
        THEN Return("InterimChatResponse", r.ask_user_clarification)
        ELSE IF analysis # None
        THEN IF ~report_builder
             THEN Return("InterimChatResponse", NoReportBuilderMessage)
             ELSE ReturnReport("user_query", summary, analysis)
        ELSE Return("InterimChatResponse", GenericAnswerMessage)

\* step 5 of process_user_query: the reply or the report.  ChatMessage and
\* FileUpload are not imported by manager.py, so converting a non-empty
\* chat_history or file_uploads raises NameError
QueryRespond(analysis, summary) ==
    LET r == llm_data_request[1]
    IN  IF r.ask_user_clarification # None /\ collected_pyats_results = <<>>
        THEN Return("InterimChatResponse", r.ask_user_clarification)
        ELSE IF analysis # None
        THEN IF ~report_builder
             THEN Return("InterimChatResponse", NoReportBuilderMessage)
             ELSE IF chat_history # <<>> \/ file_uploads # <<>>
             THEN Return("exception", <<"NameError">>)
             ELSE ReturnReport("user_query", summary, analysis)
        ELSE IF r.pyats_commands = <<>> /\ r.ask_user_clarification = None
        THEN Return("InterimChatResponse",
                    IF r.thought # None THEN r.thought ELSE GenericAnswerMessage)
        ELSE Return("InterimChatResponse", UnexpectedStateMessage)

\* variant of step 4: the analysis call is issued even when no result was
\* collected
QueryAnalysisWithoutResults ==
    /\ mpc = "analysis"
    /\ request_type = "user_query"
    /\ events' = Append(events, AnalysisOracleCall("collected data"))
    /\ mpc' = "await_analysis"
    /\ UNCHANGED final_report
    /\ UNCHANGED <<managerCfg, runArgs, runLocals, investigation_summary,
                   handlerVars>>

\* step 4 of process_user_query: the analysis call when data was collected
QueryAnalysis ==
    /\ mpc = "analysis"
    /\ request_type = "user_query"
    /\ IF collected_pyats_results # <<>>
       THEN /\ events' = Append(events, AnalysisOracleCall("collected data"))
            /\ mpc' = "await_analysis"
            /\ UNCHANGED final_report
       ELSE /\ QueryRespond(None, investigation_summary)
            /\ UNCHANGED events
    /\ UNCHANGED <<managerCfg, runArgs, runLocals, investigation_summary,
                   handlerVars>>

\* variant of the end of the analysis call: a failure is degraded into a
\* report with a synthesized analysis, as process_alarm does
QueryAnalysisReturnedDegrading ==
    /\ mpc = "await_analysis"
    /\ request_type = "user_query"
    /\ \E out \in {"ok", "raise"} :
         /\ events' = Append(events,
               Event("oracle_return", "LLMAnalysisResult", out))
         /\ UNCHANGED investigation_summary
         /\ ReturnReport("user_query", investigation_summary,
                         IF out = "ok" THEN <<OracleAnalysis>>
                         ELSE <<AnalysisFailed>>)
    /\ UNCHANGED <<managerCfg, runArgs, runLocals, handlerVars>>

\* the analysis call is over: the reply carrying its failure, or step 5
QueryAnalysisReturned ==
    /\ mpc = "await_analysis"
    /\ request_type = "user_query"
    /\ \E out \in {"ok", "raise"} :
         /\ events' = Append(events,
               Event("oracle_return", "LLMAnalysisResult", out))
         /\ IF out = "raise"
            THEN /\ Return("InterimChatResponse", AnalysisErrorMessage)
                 /\ UNCHANGED investigation_summary
            ELSE LET summary == investigation_summary \o
                         <<"LLM analysis of collected data completed.">>
                 IN  /\ investigation_summary' = summary
                     /\ QueryRespond(<<OracleAnalysis>>, summary)
    /\ UNCHANGED <<managerCfg, runArgs, runLocals, handlerVars>>

\* the caller has the value (or the exception); the manager is ready for the
\* next request
RunReturn ==
    /\ mpc = "done"
    /\ request_type' = None
    /\ mpc' = "idle"
    /\ target_scope' = <<>>
    /\ chat_history' = <<>>
    /\ file_uploads' = <<>>
    /\ llm_data_request' = None
    /\ unique_commands_from_llm' = <<>>
    /\ command_idx' = 1
    /\ collected_pyats_results' = <<>>
    /\ connectivity_test_results_agg' = <<>>
    /\ investigation_summary' = <<>>
    /\ events' = <<>>
    /\ final_report' = None
    /\ UNCHANGED <<managerCfg, handlerVars>>

\* TroubleshootingManager.__init__: the handler it builds, or None when
\* building it raised; ReportBuilder() does not raise
InitM ==
    /\ pyats_handler \in BOOLEAN
    /\ testbed \in (IF pyats_handler THEN BOOLEAN ELSE {FALSE})
    /\ allowed_commands_set = {NormalizeCommand(c) : c \in AllowedCommandsConfig}
    /\ enable_connectivity_tests \in (IF pyats_handler THEN BOOLEAN ELSE {FALSE})
    /\ HandlerIdle
    /\ report_builder = TRUE
    /\ ManagerIdle

NextM ==
    \/ AlarmStart
    \/ AlarmActionReturned
    \/ AlarmCommandLoop
    \/ AlarmCoordinatorReturned
    \/ AlarmAnalysis
    \/ AlarmAnalysisReturned
    \/ QueryStart
    \/ QueryActionReturned
    \/ QueryCommandLoop
    \/ QueryCoordinatorReturned
    \/ QueryAnalysis
    \/ QueryAnalysisReturned
    \/ RunReturn
    \/ DeviceLoop
    \/ Connect
    \/ Parse
    \/ ExecuteForRaw
    \/ FallbackExecute
    \/ BuildResult
    \/ FinallyDisconnect
    \/ ReportConnectionFailure
    \/ ExtendConnectivity

SpecM == InitM /\ [][NextM]_vars

(***************************************************************************)
(* A caller that makes the same call of the handler twice.                 *)
(***************************************************************************)
\* the manager's state but first_call
runVars == <<pyats_handler, report_builder, runArgs, mpc, runLocals,
             investigation_summary, events, final_report>>

\* what the call under way gave its caller: the two lists, or an exception
CallOutcome ==
    IF pc = "raised"
    THEN [raised |-> TRUE, results |-> <<>>, tests |-> <<>>]
    ELSE [raised |-> FALSE, results |-> all_pyats_results,
          tests |-> all_connectivity_results]

\* the first call: any device list, any command
RepeatFirstCall ==
    /\ pc = "idle"
    /\ mpc = "idle"
    /\ first_call = None
    /\ \E devs \in ListsUpTo(DeviceNames, MaxRepeatDevs), command \in CommandInputs :
         EnterExecute(devs, command)
    /\ UNCHANGED mgrVars

\* the first call is over: the caller keeps what it gave, and what the
\* devices did during it
RepeatFirstReturn ==
    /\ pc \in {"returned", "raised"}
    /\ mpc = "idle"
    /\ first_call = None
    /\ first_call' = <<[device_names |-> device_names,
                        command_to_execute |-> command_to_execute,
                        ops |-> ops,
                        outcome |-> CallOutcome]>>
    /\ LeaveExecute
    /\ UNCHANGED runVars

\* the second call: the arguments of the first
RepeatSecondCall ==
    /\ pc = "idle"
    /\ mpc = "idle"
    /\ first_call # None
    /\ EnterExecute(first_call[1].device_names, first_call[1].command_to_execute)
    /\ UNCHANGED mgrVars

\* the second call is over; the caller goes on to another pair of calls
RepeatSecondReturn ==
    /\ pc \in {"returned", "raised"}
    /\ mpc = "idle"
    /\ first_call # None
    /\ first_call' = None
    /\ LeaveExecute
    /\ UNCHANGED runVars

NextI ==
    \/ RepeatFirstCall
    \/ RepeatFirstReturn
    \/ RepeatSecondCall
    \/ RepeatSecondReturn
    \/ DeviceLoop
    \/ Connect
    \/ Parse
    \/ ExecuteForRaw
    \/ FallbackExecute
    \/ BuildResult
    \/ FinallyDisconnect
    \/ ReportConnectionFailure
    \/ ExtendConnectivity

SpecI == Init /\ [][NextI]_vars

(***************************************************************************)
(* Properties of execute_command_on_devices.                               *)
(***************************************************************************)
SessionOps == {"connect", "parse", "execute", "disconnect"}

ProbeOps == {"ping", "dns"}

\* the operations invoked for the i-th device of the call
OpsOf(i) == SelectSeq(ops, LAMBDA o : o.i = i)

\* connect was invoked for the i-th device and raised
ConnectFailed(i) ==
    \E k \in 1..Len(ops) : ops[k].i = i /\ ops[k].op = "connect" /\ ops[k].out # "ok"

\* the i-th device has been processed to the end of its loop iteration
Processed(i) == pc \notin {"idle", "raised"} /\ (i < idx \/ pc = "returned")

InCall == pc # "idle"

\* the flag printed after a label in an error text, None when absent
FlagAfter(text, label) ==
    IF \E k \in 1..(Len(text) - 1) : text[k] = label
    THEN <<text[(CHOOSE k \in 1..(Len(text) - 1) : text[k] = label) + 1]>>
    ELSE None

\* C1: a call whose command is not in the allow-set after whitespace
\* normalisation invokes no connect, parse, execute or disconnect on any
\* device, in any sequence of calls.
C1_AuthorizationGate ==
    (InCall /\ NormalizeCommand(command_to_execute) \notin allowed_commands_set)
        => \A k \in 1..Len(ops) : ops[k].op \notin SessionOps

\* a rejected call on two devices, made while a session of an earlier call
\* is still open
C1_Witness ==
    /\ pc = "returned"
    /\ testbed
    /\ NormalizeCommand(command_to_execute) \notin allowed_commands_set
    /\ command_to_execute # None
    /\ Len(device_names) = 2
    /\ Len(all_pyats_results) = 2
    /\ \E i \in 1..2 : device_names[i] \in connected

\* C4: whenever the call hands control back, normally or by exception, no
\* device named in device_names is left connected.
C4_SessionRelease ==
    pc \in {"returned", "raised"}
        => \A i \in 1..Len(device_names) : device_names[i] \notin connected

\* what the call owes the i-th device, computed from the command, the
\* handler's settings and the outcomes of that device's own operations only
OwnOutcome(i, op) ==
    LET o == SelectSeq(OpsOf(i), LAMBDA x : x.op = op)
    IN  IF o = <<>> THEN "not invoked" ELSE o[1].out

OwnTests(i) ==
    LET d == device_names[i]
    IN  (IF OwnOutcome(i, "ping") = "not invoked" THEN <<>>
         ELSE <<ConnectivityTestResult("ping", TargetForPing(d),
                                       OwnOutcome(i, "ping") = "True")>>)
        \o (IF OwnOutcome(i, "dns") = "not invoked" THEN <<>>
            ELSE <<ConnectivityTestResult("dns_resolution", d,
                                          OwnOutcome(i, "dns") = "True")>>)

OwnConnectionError(i, cause) ==
    ConnectionError(cause)
       \o (IF OwnOutcome(i, "ping") = "not invoked" THEN <<>>
           ELSE <<"Connectivity tests run. Ping success", OwnOutcome(i, "ping")>>)
       \o (IF OwnOutcome(i, "dns") = "not invoked" THEN <<>>
           ELSE <<"DNS success", OwnOutcome(i, "dns")>>)

OwnResult(i) ==
    LET d == device_names[i]
        c == normalized_command
        parse == OwnOutcome(i, "parse")
        exec == OwnOutcome(i, "execute")
        Failed(cause) ==
            PyATSCommandResult(d, c, None, None, OwnConnectionError(i, cause))
    IN  IF ~testbed
        THEN PyATSCommandResult(d, command_to_execute, None, None, TestbedNotLoadedError)
        ELSE IF c \notin allowed_commands_set
        THEN PyATSCommandResult(d, c, None, None, NotAllowedError)
        ELSE IF d \notin TestbedDevices
        THEN PyATSCommandResult(d, c, None, None, DeviceNotFoundError)
        ELSE IF ConnectFailed(i) THEN Failed("connect failed")
        ELSE CASE parse = "dict+raw" ->
                    PyATSCommandResult(d, c, ParseRawOutput, ParsedDict, None)
               [] parse = "dict" /\ exec = "ok" ->
                    PyATSCommandResult(d, c, ExecuteOutput, ParsedDict, None)
               [] parse = "object+raw" -> Failed("validation error")
               [] parse = "object" /\ exec = "ok" -> Failed("validation error")
               [] parse \in {"dict", "object"} /\ exec = "raise" ->
                    PyATSCommandResult(d, c, RawFailedAfterGenericError, None,
                                       UnexpectedError)
               [] parse = "SchemaEmptyParserError" ->
                    PyATSCommandResult(d, c,
                        IF exec = "ok" THEN ExecuteOutput ELSE RawFailedAfterExecute,
                        None, SchemaEmptyError)
               [] parse = "AttributeError" ->
                    PyATSCommandResult(d, c,
                        IF exec = "ok" THEN ExecuteOutput ELSE RawFailedAfterExecute,
                        None, ParserMissingError)
               [] parse = "GenieCommandError+output" ->
                    PyATSCommandResult(d, c, GenieErrorOutput, None, CommandError)
               [] parse = "GenieCommandError" ->
                    PyATSCommandResult(d, c, RawFailedAfterCommandError, None,
                                       CommandError)
               [] parse = "Exception" ->
                    PyATSCommandResult(d, c, RawFailedAfterGenericError, None,
                                       UnexpectedError)

RECURSIVE OwnTestsUpTo(_)
OwnTestsUpTo(n) == IF n = 0 THEN <<>> ELSE OwnTestsUpTo(n - 1) \o OwnTests(n)

\* C5: the CommandResult and the ReachabilityResults of each processed
\* device are those its own outcomes determine, whatever other devices are
\* in the call, whatever their outcomes and whatever the order.
C5_DeviceIsolation ==
    pc = "returned" =>
        /\ \A i \in 1..Len(device_names) : all_pyats_results[i] = OwnResult(i)
        /\ all_connectivity_results = OwnTestsUpTo(Len(device_names))

\* C6: the call never raises, and it returns exactly one CommandResult for
\* each requested device, in the name of that device.
C6_FailuresAreData ==
    /\ pc # "raised"
    /\ pc = "returned" =>
         /\ Len(all_pyats_results) = Len(device_names)
         /\ \A i \in 1..Len(device_names) :
                all_pyats_results[i].device_hostname = device_names[i]

\* C7: in every CommandResult the call has produced, error and
\* parsed_output are not both non-null.
C7_ErrorExcludesParsed ==
    \A k \in 1..Len(all_pyats_results) :
        ~(all_pyats_results[k].error # None /\ all_pyats_results[k].parsed_output # None)

\* a returned call with one parsed result and one error result
C7_Witness ==
    /\ pc = "returned"
    /\ \E k \in 1..Len(all_pyats_results) : all_pyats_results[k].parsed_output # None
    /\ \E k \in 1..Len(all_pyats_results) :
          /\ all_pyats_results[k].error # None
          /\ all_pyats_results[k].raw_output # None

C9_ProbesOnlyAfterConnectFailure ==
    \A k \in 1..Len(ops) : ops[k].op \in ProbeOps => ConnectFailed(ops[k].i)

OracleFailed ==
    \E k \in 1..Len(events) :
        events[k].ev = "oracle_return" /\ events[k].how = "raise"

RunDone(type) == mpc = "done" /\ request_type = type

\* C2: whatever Oracle call fails, process_alarm hands its caller a Report,
\* never an exception, and the Report's llm_analysis is not null.
C2_AlarmAlwaysReports ==
    RunDone("alarm") =>
        /\ final_report[1].kind = "Report"
        /\ final_report[1].value.llm_analysis # None

\* C3: when an Oracle call of process_user_query fails, the first one
\* included, the caller receives an InterimChatResponse, never an exception.
C3_QueryOracleFailureIsInterim ==
    (RunDone("user_query") /\ OracleFailed) =>
        final_report[1].kind = "InterimChatResponse"

\* C11: for an allow-listed command, a device name the inventory does not
\* resolve gets the "not found" error CommandResult, no operation is invoked
\* for it (no connect, no probe), no ReachabilityResult targets it, and the
\* loop goes on: the call returns only after the last device.
C11_UnknownDevice ==
    (InCall /\ testbed /\ normalized_command \in allowed_commands_set) =>
        /\ \A i \in 1..Len(device_names) :
              device_names[i] \notin TestbedDevices =>
                 /\ OpsOf(i) = <<>>
                 /\ \A k \in 1..Len(all_connectivity_results) :
                       all_connectivity_results[k].target # device_names[i]
                 /\ Processed(i) =>
                       all_pyats_results[i] =
                          PyATSCommandResult(device_names[i], normalized_command,
                                             None, None, DeviceNotFoundError)
        /\ pc = "returned" => idx = Len(device_names) + 1

\* a returned call whose first device is unknown and whose second device was
\* connected to
C11_Witness ==
    /\ pc = "returned"
    /\ Len(device_names) = 2
    /\ device_names[1] \notin TestbedDevices
    /\ all_pyats_results[1].error = DeviceNotFoundError
    /\ \E k \in 1..Len(ops) : ops[k].i = 2 /\ ops[k].op = "connect"
    /\ all_pyats_results[2].parsed_output # None

\* the connect operations invoked for the i-th device of the call
ConnectsOf(i) == SelectSeq(OpsOf(i), LAMBDA o : o.op = "connect")

\* C12: for each device of a call, connect is invoked at most once; parse
\* and execute are invoked only after its connect succeeded (or without a
\* connect, on a session that was already open), never after its connect
\* failed and never after its disconnect; and at the moment parse or execute
\* is to be invoked the session of the device is open.
C12_LifecycleOrdering ==
    /\ \A i \in 1..Len(device_names) : Len(ConnectsOf(i)) <= 1
    /\ \A k \in 1..Len(ops) :
          ops[k].op \in {"parse", "execute"} =>
             /\ ~ConnectFailed(ops[k].i)
             /\ \A j \in 1..Len(ops) :
                   ops[j].i = ops[k].i =>
                      /\ ops[j].op = "connect" => (j < k /\ ops[j].out = "ok")
                      /\ ops[j].op = "disconnect" => j > k
    /\ pc \in {"parse", "execute", "fallback"} => CurrentDevice \in connected

\* a returned call on two devices: the first failed to connect, the second
\* was parsed on a session that was already open and then disconnected
C12_Witness ==
    /\ pc = "returned"
    /\ Len(device_names) = 2
    /\ ConnectFailed(1)
    /\ ConnectsOf(2) = <<>>
    /\ \E k \in 1..Len(ops) : ops[k].i = 2 /\ ops[k].op = "parse"
    /\ \E k \in 1..Len(ops) : ops[k].i = 2 /\ ops[k].op = "disconnect"

\* a run of the given entry point is in progress (or just over)
InRun(type) == mpc # "idle" /\ request_type = type

\* the ActionRequest the first Oracle call of the run returned
Request == llm_data_request[1]

HasRequest == llm_data_request # None

\* the Oracle calls and the Coordinator invocations the run has issued
OracleCalls == SelectSeq(events, LAMBDA e : e.ev = "oracle_call")

CoordinatorCalls == SelectSeq(events, LAMBDA e : e.ev = "coordinator_call")

\* the run is over and handed its caller a value of the given kind
Handed(kind) == mpc = "done" /\ final_report[1].kind = kind

\* C13: in process_user_query, an ActionRequest with a clarification
\* question and no commands ends the run with an InterimChatResponse whose
\* message is exactly the question; the Coordinator is never invoked, no
\* device operation takes place and the Oracle is called once only.
C13_ClarificationOnly ==
    (/\ InRun("user_query")
     /\ HasRequest
     /\ Request.pyats_commands = <<>>
     /\ Request.ask_user_clarification # None)
        => /\ CoordinatorCalls = <<>>
           /\ Len(OracleCalls) = 1
           /\ pc = "idle"
           /\ ops = <<>>
           /\ mpc = "done" =>
                 /\ final_report[1].kind = "InterimChatResponse"
                 /\ final_report[1].value = Request.ask_user_clarification

\* Scenario B: the query run is over with the question as its reply
C13_Witness ==
    /\ InRun("user_query")
    /\ HasRequest
    /\ Request.pyats_commands = <<>>
    /\ Request.ask_user_clarification = Question
    /\ Handed("InterimChatResponse")
    /\ final_report[1].value = Question
    /\ pyats_handler

\* the analysis call of the run was issued and returned an analysis
AnalysisReturned ==
    \E k \in 1..Len(events) :
        /\ events[k].ev = "oracle_return"
        /\ events[k].what = "LLMAnalysisResult"
        /\ events[k].how = "ok"

\* C14: in process_user_query, when the ActionRequest asks for at least one
\* command, a handler is available and the analysis call succeeds, the run
\* returns a Report carrying the collected results and that analysis,
\* whatever the chat history, the file uploads and the target scope.
C14_QueryReportAfterCommands ==
    (/\ InRun("user_query")
     /\ mpc = "done"
     /\ HasRequest
     /\ Request.pyats_commands # <<>>
     /\ pyats_handler
     /\ AnalysisReturned)
        => /\ final_report[1].kind = "Report"
           /\ final_report[1].value.pyats_command_results = collected_pyats_results
           /\ final_report[1].value.llm_analysis = <<OracleAnalysis>>

\* the analysis call of the run was issued and raised
AnalysisRaised ==
    \E k \in 1..Len(events) :
        /\ events[k].ev = "oracle_return"
        /\ events[k].what = "LLMAnalysisResult"
        /\ events[k].how = "raise"

\* C15: in process_user_query, when the analysis call fails after commands
\* were executed, the run returns an InterimChatResponse whose message
\* carries the failure; it returns no Report and no synthesized analysis.
C15_QueryAnalysisFailure ==
    (InRun("user_query") /\ mpc = "done" /\ AnalysisRaised)
        => /\ final_report[1].kind = "InterimChatResponse"
           /\ InSeq(OracleErrorText, final_report[1].value)

\* a query run whose commands produced results and whose analysis call
\* raised
C15_Witness ==
    /\ InRun("user_query")
    /\ Handed("InterimChatResponse")
    /\ AnalysisRaised
    /\ collected_pyats_results # <<>>
    /\ CoordinatorCalls # <<>>
    /\ final_report[1].value = AnalysisErrorMessage

\* C16: in process_user_query, when the ActionRequest asks for commands and
\* there is no handler, the run ends at once with the InterimChatResponse
\* saying that devices cannot be reached; no Coordinator invocation, no
\* device operation and no second Oracle call take place, whether or not the
\* ActionRequest also carries a question or a reasoning note.
C16_QueryWithoutHandler ==
    (/\ InRun("user_query")
     /\ HasRequest
     /\ Request.pyats_commands # <<>>
     /\ ~pyats_handler)
        => /\ CoordinatorCalls = <<>>
           /\ ops = <<>>
           /\ pc = "idle"
           /\ Len(OracleCalls) = 1
           /\ mpc = "done"
           /\ final_report[1].kind = "InterimChatResponse"
           /\ final_report[1].value = HandlerUnavailableMessage

\* no handler, and an ActionRequest with a command and a question
C16_Witness ==
    /\ InRun("user_query")
    /\ ~pyats_handler
    /\ HasRequest
    /\ Request.pyats_commands # <<>>
    /\ Request.ask_user_clarification # None
    /\ Handed("InterimChatResponse")
    /\ final_report[1].value = HandlerUnavailableMessage

\* C17: in process_user_query, an ActionRequest with no commands and no
\* question ends the run with an InterimChatResponse whose message is the
\* reasoning note when there is one and the fixed generic message
\* otherwise; the Coordinator is not invoked and the Oracle is called
\* exactly once.
C17_DirectAnswer ==
    (/\ InRun("user_query")
     /\ HasRequest
     /\ Request.pyats_commands = <<>>
     /\ Request.ask_user_clarification = None)
        => /\ CoordinatorCalls = <<>>
           /\ ops = <<>>
           /\ Len(OracleCalls) = 1
           /\ mpc = "done" =>
                 /\ final_report[1].kind = "InterimChatResponse"
                 /\ final_report[1].value =
                       IF Request.thought # None THEN Request.thought
                       ELSE GenericAnswerMessage

\* the run ended with the reasoning note as its answer
C17_Witness ==
    /\ InRun("user_query")
    /\ HasRequest
    /\ Request.pyats_commands = <<>>
    /\ Request.ask_user_clarification = None
    /\ Request.thought = Thought
    /\ Handed("InterimChatResponse")
    /\ final_report[1].value = Thought

\* a Report has been handed to the caller of either flow
ReportHanded == mpc = "done" /\ final_report[1].kind = "Report"

\* the Report handed to the caller
TheReport == final_report[1].value

\* C18: in every Report of process_alarm or process_user_query,
\* devices_investigated is the ascending sorted list of the distinct
\* device_hostname values of pyats_command_results
C18_DevicesSorted ==
    ReportHanded =>
        TheReport.devices_investigated =
            Sorted(DevicesOfResults(TheReport.pyats_command_results))

\* C19: in every Report of either flow the names in devices_investigated
\* are exactly the device_hostname values of pyats_command_results, no name
\* is repeated, and the list is empty exactly when the results are empty
C19_DevicesCoverResults ==
    ReportHanded =>
        LET devices == TheReport.devices_investigated
            results == TheReport.pyats_command_results
        IN  /\ Range(devices) = {results[k].device_hostname : k \in 1..Len(results)}
            /\ \A i, j \in 1..Len(devices) : devices[i] = devices[j] => i = j
            /\ devices = <<>> <=> results = <<>>

\* a Report whose results hold two entries of one device, named once
C19_Witness ==
    /\ ReportHanded
    /\ Len(TheReport.pyats_command_results) = 2
    /\ TheReport.devices_investigated = <<"R1">>

\* C20: in process_alarm, when the ActionRequest of the Oracle carries no
\* command, the Oracle is asked exactly once, zero CommandResults are
\* collected, and the Report has a non-null AnalysisResult and empty
\* pyats_command_results.
C20_ScenarioA ==
    (/\ InRun("alarm") /\ HasRequest
     /\ Request.pyats_commands = <<>>)
        => /\ Len(OracleCalls) = 1
           /\ collected_pyats_results = <<>>
           /\ mpc = "done" =>
                 /\ final_report[1].kind = "Report"
                 /\ TheReport.llm_analysis # None
                 /\ TheReport.pyats_command_results = <<>>

\* C20 as the code has it: in process_alarm, when the ActionRequest of the
\* Oracle carries no command, the Coordinator is never invoked and zero
\* CommandResults are collected; the run ends with a Report that has a
\* non-null AnalysisResult and empty pyats_command_results; the Oracle has
\* then been asked exactly twice (the ActionRequest, then an assessment
\* from the alarm alone) when no clarification was requested, and exactly
\* once when one was.
C20_ScenarioA_Amended ==
    (/\ InRun("alarm") /\ HasRequest
     /\ Request.pyats_commands = <<>>)
        => /\ CoordinatorCalls = <<>>
           /\ collected_pyats_results = <<>>
           /\ Len(OracleCalls) \in {1, 2}
           /\ mpc = "done" =>
                 /\ final_report[1].kind = "Report"
                 /\ TheReport.llm_analysis # None
                 /\ TheReport.pyats_command_results = <<>>
                 /\ Len(OracleCalls) =
                       IF Request.ask_user_clarification = None THEN 2 ELSE 1

\* an alarm run whose ActionRequest has neither commands nor a question
\* ended with the Oracle's assessment from the alarm alone
C20_Witness ==
    /\ InRun("alarm") /\ HasRequest
    /\ Request.pyats_commands = <<>>
    /\ Request.ask_user_clarification = None
    /\ ReportHanded
    /\ TheReport.llm_analysis = <<OracleAnalysis>>
    /\ TheReport.pyats_command_results = <<>>
    /\ Len(OracleCalls) = 2

\* C21: in process_alarm, whenever at least one CommandResult was collected
\* (error results included), exactly one further Oracle call is made, for
\* an LLMAnalysisResult and without the capabilities summary, and its
\* result, or the synthesized analysis when it fails, is the Report's
\* llm_analysis.
C21_AlarmAnalysisCall ==
    (InRun("alarm") /\ collected_pyats_results # <<>>)
        => /\ Len(OracleCalls) <= 2
           /\ \A k \in 2..Len(OracleCalls) :
                 /\ OracleCalls[k].what = "LLMAnalysisResult"
                 /\ OracleCalls[k].how # "capabilities"
           /\ mpc = "done" =>
                 /\ final_report[1].kind = "Report"
                 /\ Len(OracleCalls) = 2
                 /\ TheReport.pyats_command_results = collected_pyats_results
                 /\ TheReport.llm_analysis =
                       IF AnalysisRaised THEN <<AnalysisFailed>>
                       ELSE <<OracleAnalysis>>

\* an alarm run that collected only an error result and whose analysis
\* call failed
C21_Witness ==
    /\ InRun("alarm")
    /\ Len(collected_pyats_results) = 1
    /\ collected_pyats_results[1].error # None
    /\ ReportHanded
    /\ AnalysisRaised
    /\ TheReport.llm_analysis = <<AnalysisFailed>>

\* C22: in process_alarm, whenever zero CommandResults were collected and
\* the ActionRequest carried no clarification question, the Oracle is asked
\* once more for an assessment from the alarm alone: when no commands were
\* requested, when the requested commands resolved to no device, and when
\* no handler is available.
C22_BestEffortAssessment ==
    (/\ InRun("alarm") /\ HasRequest
     /\ mpc = "done"
     /\ collected_pyats_results = <<>>
     /\ Request.ask_user_clarification = None)
        => /\ Len(OracleCalls) = 2
           /\ OracleCalls[2].what = "LLMAnalysisResult"
           /\ OracleCalls[2].how = "alarm only"

\* C23: in process_alarm, when zero CommandResults were collected and the
\* ActionRequest carried a clarification question, the Report's analysis is
\* built locally, says that the run is pending clarification and quotes
\* the question, and the Oracle was called exactly once in the run.
C23_PendingClarification ==
    (/\ InRun("alarm") /\ HasRequest
     /\ mpc = "done"
     /\ collected_pyats_results = <<>>
     /\ Request.ask_user_clarification # None)
        => /\ final_report[1].kind = "Report"
           /\ Len(OracleCalls) = 1
           /\ TheReport.llm_analysis # None
           /\ LET assessment == TheReport.llm_analysis[1].overall_assessment
                  question == Request.ask_user_clarification
              IN  /\ Len(assessment) = 2 + Len(question)
                  /\ assessment[1] = "Further action pending user clarification."
                  /\ SubSeq(assessment, 3, Len(assessment)) = question

\* an alarm run whose ActionRequest asked a question alongside a command
\* that no handler could run ended with the synthesized analysis
C23_Witness ==
    /\ InRun("alarm") /\ HasRequest
    /\ Request.ask_user_clarification = Question
    /\ Request.pyats_commands # <<>>
    /\ collected_pyats_results = <<>>
    /\ ReportHanded
    /\ TheReport.llm_analysis = <<PendingClarification(Question)>>

\* some requested command has a device to run on
SomeCommandHasDevices ==
    \E c \in RequestedCommands(Request) :
        UniqueDevicesForCommand(Request, target_scope, c) # <<>>

\* the narrative holds the note of the question
QuestionNoted(summary, question) ==
    \E k \in 1..Len(summary) :
        /\ summary[k] = "LLM requested clarification"
        /\ k + Len(question) <= Len(summary)
        /\ SubSeq(summary, k + 1, k + Len(question)) = question

\* C24: in process_alarm, when the ActionRequest carries both commands and
\* a clarification question, the commands are still handed to the
\* Coordinator (a handler being available and a device being named), their
\* results reach the Report, and the question is recorded in the Report's
\* investigation narrative: the question does not halt the run.
C24_QuestionDoesNotHalt ==
    (/\ InRun("alarm") /\ HasRequest
     /\ pyats_handler
     /\ Request.pyats_commands # <<>>
     /\ Request.ask_user_clarification # None
     /\ SomeCommandHasDevices
     /\ mpc = "done")
        => /\ final_report[1].kind = "Report"
           /\ CoordinatorCalls # <<>>
           /\ \A k \in 1..Len(CoordinatorCalls) :
                 CoordinatorCalls[k].how \in RequestedCommands(Request)
           /\ TheReport.pyats_command_results = collected_pyats_results
           /\ QuestionNoted(TheReport.investigation_summary,
                            Request.ask_user_clarification)

\* an alarm run with a command and a question ended with the result of the
\* command in the Report
C24_Witness ==
    /\ InRun("alarm") /\ HasRequest
    /\ Request.pyats_commands # <<>>
    /\ Request.ask_user_clarification = Question
    /\ ReportHanded
    /\ Len(CoordinatorCalls) = 1
    /\ Len(TheReport.pyats_command_results) = 1
    /\ TheReport.pyats_command_results[1].error = None
    /\ QuestionNoted(TheReport.investigation_summary, Question)

\* C25: in both flows no (normalized command, device) pair is handed to
\* the Coordinator more than once in a run, whatever the list of command
\* requests, so a Report never holds two CommandResults with the same
\* device_hostname and command.
C25_Deduplication ==
    /\ mpc # "idle" =>
          \A k, l \in 1..Len(CoordinatorCalls) :
              (/\ NormalizeCommand(CoordinatorCalls[k].how) =
                     NormalizeCommand(CoordinatorCalls[l].how)
               /\ Range(CoordinatorCalls[k].what)
                     \cap Range(CoordinatorCalls[l].what) # {})
                  => k = l
    /\ ReportHanded =>
          LET results == TheReport.pyats_command_results
          IN  \A i, j \in 1..Len(results) :
                  (/\ results[i].device_hostname = results[j].device_hostname
                   /\ results[i].command = results[j].command)
                      => i = j

\* how many of the first k events of the run are of the kind ev
CountBefore(ev, k) ==
    Len(SelectSeq(SubSeq(events, 1, k), LAMBDA e : e.ev = ev))

\* C26: within a run, the analysis Oracle call is issued only after every
\* Coordinator invocation of the run has returned, no Coordinator
\* invocation starts before the first Oracle call has returned, and never
\* are two Oracle calls of the run outstanding at once.
C26_OracleCoordinatorOrdering ==
    mpc # "idle" =>
        \A k \in 1..Len(events) :
            /\ (events[k].ev = "oracle_call"
                   /\ events[k].what = "LLMAnalysisResult")
                  => CountBefore("coordinator_call", k)
                        = CountBefore("coordinator_return", k)
            /\ events[k].ev = "coordinator_call"
                  => /\ CountBefore("oracle_return", k) >= 1
                     /\ CountBefore("coordinator_call", k - 1)
                           = CountBefore("coordinator_return", k - 1)
            /\ CountBefore("oracle_call", k) - CountBefore("oracle_return", k)
                  \in {0, 1}

\* a finished run with two Coordinator invocations between its two Oracle
\* calls
C26_Witness ==
    /\ mpc = "done"
    /\ Len(CoordinatorCalls) = 2
    /\ Len(OracleCalls) = 2
    /\ CountBefore("coordinator_return", Len(events)) = 2
    /\ CountBefore("oracle_return", Len(events)) = 2

\* C27: every invocation of process_alarm or process_user_query ends in
\* exactly one terminal state with a value: process_alarm with a Report,
\* process_user_query with a Report or an InterimChatResponse; no run ends
\* without a value.
C27_TerminalStates ==
    /\ RunDone("alarm") => final_report[1].kind = "Report"
    /\ RunDone("user_query") =>
          final_report[1].kind \in {"Report", "InterimChatResponse"}

(***************************************************************************)
(* Properties of repeated calls of execute_command_on_devices.             *)
(***************************************************************************)
\* the devices answered the second call as they answered the first: the
\* same outcome for the same operation on the same device
SameDeviceBehaviour ==
    \A k \in 1..Len(first_call[1].ops), l \in 1..Len(ops) :
        (/\ first_call[1].ops[k].dev = ops[l].dev
         /\ first_call[1].ops[k].op = ops[l].op)
            => first_call[1].ops[k].out = ops[l].out

\* the second call of a pair is over
SecondCallOver == first_call # None /\ pc \in {"returned", "raised"}

\* C28: calling execute_command_on_devices twice with the same command and
\* the same device list, the devices behaving the same way in both calls,
\* gives equal CommandResult lists and equal ReachabilityResult lists: the
\* first call leaves nothing in the handler or the devices that changes
\* the second.
C28_Idempotence ==
    (SecondCallOver /\ SameDeviceBehaviour)
        => CallOutcome = first_call[1].outcome

\* C29: for a command that is not allow-listed the call returns exactly one
\* CommandResult per requested device, each with the 'not allowed' error
\* and no raw or parsed output, and an empty list of connectivity results,
\* whatever the state of the inventory.
C29_NotAllowedOutcome ==
    (/\ pc = "returned"
     /\ NormalizeCommand(command_to_execute) \notin allowed_commands_set)
        => /\ Len(all_pyats_results) = Len(device_names)
           /\ \A i \in 1..Len(device_names) :
                 /\ all_pyats_results[i].device_hostname = device_names[i]
                 /\ all_pyats_results[i].error = NotAllowedError
                 /\ all_pyats_results[i].raw_output = None
                 /\ all_pyats_results[i].parsed_output = None
           /\ all_connectivity_results = <<>>

\* C30: for every kind of structured-parse failure on a connected device
\* (empty or no schema match, missing parser, command error, any other
\* exception) the command is executed for its raw output, and the
\* CommandResult has the parse failure in error, no parsed_output, and as
\* raw_output the text the device returned when that execute succeeded.
C30_ParseFallback ==
    \A i \in 1..Len(device_names) :
        (Processed(i) /\ OwnOutcome(i, "parse") \in ParseRaises)
            => /\ OwnOutcome(i, "execute") # "not invoked"
               /\ all_pyats_results[i].device_hostname = device_names[i]
               /\ all_pyats_results[i].error # None
               /\ all_pyats_results[i].parsed_output = None
               /\ OwnOutcome(i, "execute") = "ok"
                     => all_pyats_results[i].raw_output = ExecuteOutput

\* C31: when the structured parse succeeds on a connected device, the
\* CommandResult has no error, the parsed value as parsed_output, and a
\* raw_output (from the raw data of the parse, or from a separate execute
\* of the command when the parse carries none).
C31_ParseSuccess ==
    \A i \in 1..Len(device_names) :
        (Processed(i) /\ OwnOutcome(i, "parse") \in ParseReturns)
            => /\ all_pyats_results[i].device_hostname = device_names[i]
               /\ all_pyats_results[i].error = None
               /\ all_pyats_results[i].parsed_output =
                     ParseValue(OwnOutcome(i, "parse"))
               /\ all_pyats_results[i].raw_output # None

\* C32: every CommandResult of execute_command_on_devices carries, on every
\* path, the whitespace-normalized text of the command it was called with,
\* so that commands differing only in whitespace give the same results.
C32_NormalizedCommand ==
    InCall =>
        \A k \in 1..Len(all_pyats_results) :
            all_pyats_results[k].command = NormalizeCommand(command_to_execute)

\* C33: on a connection failure with diagnostics enabled, the
\* name-resolution probe is run exactly when the device name the caller
\* gave does not look like a raw address, and it targets that name,
\* whichever address the ping probe was sent to.
C33_DnsProbeByDeviceName ==
    \A i \in 1..Len(device_names) :
        (Processed(i) /\ OwnOutcome(i, "ping") # "not invoked")
            => /\ OwnOutcome(i, "dns") # "not invoked"
                     <=> ~IsIpLike(device_names[i])
               /\ \A k \in 1..Len(ops) :
                     (ops[k].i = i /\ ops[k].op = "dns")
                         => ops[k].dev = device_names[i]

\* the flag a device's own probe gave, as the error text would print it
OwnFlag(i, probe) ==
    IF OwnOutcome(i, probe) = "not invoked" THEN None
    ELSE <<OwnOutcome(i, probe)>>

\* C34: for every device of a call, the error text of its CommandResult
\* mentions a DNS success flag exactly when a dns_resolution probe was run
\* for that device in this call, and the flags in the text are the success
\* values of that device's own probes, for any order and mix of devices.
C34_ErrorTextMatchesProbes ==
    \A i \in 1..Len(device_names) :
        Processed(i)
            => /\ FlagAfter(all_pyats_results[i].error, "DNS success")
                     = OwnFlag(i, "dns")
               /\ FlagAfter(all_pyats_results[i].error,
                            "Connectivity tests run. Ping success")
                     = OwnFlag(i, "ping")

\* C35: in process_user_query, when the ActionRequest carries both a
\* question and commands and a handler is available, the commands are
\* executed; if they gave at least one CommandResult (and the analysis call
\* succeeded) the run ends with a Report and the question is not returned;
\* the question is returned as InterimChatResponse only when no
\* CommandResult was collected.
C35_QuestionWithCommands ==
    (/\ InRun("user_query") /\ HasRequest
     /\ pyats_handler
     /\ Request.pyats_commands # <<>>
     /\ Request.ask_user_clarification # None
     /\ mpc = "done"
     /\ ~AnalysisRaised)
        => /\ collected_pyats_results # <<>> =>
                 /\ CoordinatorCalls # <<>>
                 /\ final_report[1].kind = "Report"
           /\ (/\ final_report[1].kind = "InterimChatResponse"
               /\ final_report[1].value = Request.ask_user_clarification)
                 => collected_pyats_results = <<>>

\* C36: every run of process_alarm or process_user_query issues its first
\* Oracle call before anything else, for an LLMDataRequestAction and with
\* the capabilities summary; every later Oracle call asks for an
\* LLMAnalysisResult; a run issues at most two Oracle calls, and after a
\* failed Oracle call none is issued for the same schema.
C36_OracleCallBudget ==
    mpc # "idle" =>
        /\ events # <<>>
        /\ events[1] = [ev |-> "oracle_call", what |-> "LLMDataRequestAction",
                        how |-> "capabilities"]
        /\ \A k \in 2..Len(events) :
              events[k].ev = "oracle_call" =>
                  events[k].what = "LLMAnalysisResult"
        /\ Len(OracleCalls) <= 2
        /\ \A j \in 1..Len(events), k \in 1..Len(events) :
              (/\ j < k
               /\ events[j].ev = "oracle_return"
               /\ events[j].how = "raise"
               /\ events[k].ev = "oracle_call")
                  => events[k].what # events[j].what

\* a finished run whose second Oracle call failed
C36_Witness ==
    /\ mpc = "done"
    /\ Len(OracleCalls) = 2
    /\ AnalysisRaised
    /\ CoordinatorCalls # <<>>

\* C37: every Report handed to the caller of process_user_query has an
\* llm_analysis that is not null and a pyats_command_results list that is
\* not empty
C37_QueryReportHasResults ==
    (RunDone("user_query") /\ final_report[1].kind = "Report")
        => /\ final_report[1].value.llm_analysis # None
           /\ final_report[1].value.pyats_command_results # <<>>

\* a Report of process_user_query, after a request with commands and a
\* clarification question
C37_Witness ==
    /\ RunDone("user_query")
    /\ final_report[1].kind = "Report"
    /\ Request.ask_user_clarification # None
    /\ Len(final_report[1].value.pyats_command_results) = 1

\* C38: in every Report, connectivity_test_results is the concatenation, in
\* order, of the lists the run's Coordinator invocations returned (each
\* return appends its list, nothing else changes the aggregate during the
\* run), and every entry has as target the name or the inventory address of
\* a device with a "Connection error" result in pyats_command_results.
C38_DiagnosticsConsistent ==
    /\ [][/\ (mpc = "idle" /\ mpc' # "idle")
                 => connectivity_test_results_agg' = <<>>
          /\ (mpc = "executing" /\ mpc' # "executing" /\ pc = "returned")
                 => connectivity_test_results_agg' =
                       connectivity_test_results_agg \o all_connectivity_results
          /\ (/\ mpc # "idle"
              /\ mpc' # "idle"
              /\ ~(mpc = "executing" /\ mpc' # "executing" /\ pc = "returned"))
                 => connectivity_test_results_agg' =
                       connectivity_test_results_agg]_vars
    /\ [](ReportHanded =>
            LET tests == final_report[1].value.connectivity_test_results
                results == final_report[1].value.pyats_command_results
            IN  /\ tests = connectivity_test_results_agg
                /\ \A k \in 1..Len(tests) :
                      \E j \in 1..Len(results) :
                         /\ results[j].error # None
                         /\ results[j].error[1] = "Connection error"
                         /\ tests[k].target \in
                               {results[j].device_hostname,
                                TargetForPing(results[j].device_hostname)})

\* a Report after two Coordinator invocations that both returned probes
C38_Witness ==
    /\ ReportHanded
    /\ Len(SelectSeq(events, LAMBDA e : e.ev = "coordinator_return")) = 2
    /\ Len(final_report[1].value.connectivity_test_results) >= 3

\* C39: while the handler has no testbed, a call of
\* execute_command_on_devices invokes no connect, parse, execute, disconnect
\* or probe, and returns one CommandResult with an error per requested
\* device, in order, with an empty list of connectivity results, whether or
\* not the command is in the allow-set.
C39_NoTestbed ==
    (InCall /\ ~testbed) =>
        /\ ops = <<>>
        /\ pc = "returned"
        /\ all_connectivity_results = <<>>
        /\ Len(all_pyats_results) = Len(device_names)
        /\ \A i \in 1..Len(device_names) :
              /\ all_pyats_results[i].device_hostname = device_names[i]
              /\ all_pyats_results[i].error # None
              /\ all_pyats_results[i].parsed_output = None

\* a call for an allow-listed command on two devices, without testbed
C39_Witness ==
    /\ pc = "returned"
    /\ ~testbed
    /\ Len(device_names) = 2
    /\ NormalizeCommand(command_to_execute) \in allowed_commands_set

====
